---- MODULE Spec2Model ----
(***************************************************************************)
(* A model of the dacite toolchain: Lexer, Parser, Compiler and VM.        *)
(* Source text is a sequence of one-character strings; every stage is an   *)
(* operator translated from its C++ method, and the actions apply them.    *)
(***************************************************************************)
EXTENDS Integers, Sequences, FiniteSets, TLC

VARIABLES
    stage,      \* which component the behaviour exercises, and where it is
    source,     \* Lexer::source_
    config,     \* LexerConfig / VMConfig of the instance under test
    lexer,      \* Lexer fields: current_pos_, current_position_, errors_, peeked_token_
    returned,   \* history: the tokens next_token() has returned to the caller
    peeks,      \* history: what the peek_token() calls since the last next_token() returned
    tokens,     \* the vector tokenize_all() returned / Parser::tokens_
    parsed,     \* Parser result: the Program and Parser::errors_
    compiler,   \* Compiler::error_message_ and the result of the last compile call
    chunk,      \* the Chunk handed to compile / run
    vm,         \* VM fields: stack_, error_message_
    run         \* the position of VM::run: ip, result, and history of the run

vars == <<stage, source, config, lexer, returned, peeks, tokens, parsed,
          compiler, chunk, vm, run>>

\* `auto x = e; rest`: the value of e is computed once and named in rest.
Bind(x, rest(_)) == rest(x)

(***************************************************************************)
(* Bounds of the model.                                                    *)
(***************************************************************************)
MaxSrcLen == 3      \* longest source the Lexer specification enumerates
MaxCalls == 4       \* next_token()/peek_token() calls made on one Lexer

(***************************************************************************)
(* Characters (src/src/lexer.cpp:460-478).                                 *)
(***************************************************************************)
NUL == "\\0"

LowerChars == {"a","b","c","d","e","f","g","h","i","j","k","l","m",
               "n","o","p","q","r","s","t","u","v","w","x","y","z"}
UpperChars == {"A","B","C","D","E","F","G","H","I","J","K","L","M",
               "N","O","P","Q","R","S","T","U","V","W","X","Y","Z"}
DigitChars == {"0","1","2","3","4","5","6","7","8","9"}

is_alpha(c) == c \in LowerChars \cup UpperChars \cup {"_"}
is_digit(c) == c \in DigitChars
is_hex_digit(c) == c \in DigitChars \cup {"a","b","c","d","e","f","A","B","C","D","E","F"}
is_alnum(c) == c \in LowerChars \cup UpperChars \cup DigitChars
is_whitespace(c) == c \in {" ", "\t", "\n", "\r"}

(***************************************************************************)
(* Positions, spans and tokens (src/src/source_span.h, src/src/token.h).   *)
(***************************************************************************)
SourcePosition(line, column, offset) == [line |-> line, column |-> column, offset |-> offset]
DefaultPosition == SourcePosition(1, 1, 0)
SourceSpan(start, end) == [start |-> start, end |-> end]
DefaultSpan == SourceSpan(DefaultPosition, DefaultPosition)
Token(type, value, span) == [type |-> type, value |-> value, span |-> span]

Keywords == {<<"p","a","c","k","a","g","e">>, <<"f","n">>, <<"v","o","i","d">>,
             <<"r","e","t","u","r","n">>, <<"i","f">>, <<"e","l","s","e">>,
             <<"w","h","i","l","e">>, <<"f","o","r">>, <<"t","r","u","e">>,
             <<"f","a","l","s","e">>}

keyword_or_identifier(text) ==
    CASE text = <<"p","a","c","k","a","g","e">> -> "PACKAGE"
      [] text = <<"f","n">> -> "FN"
      [] text = <<"v","o","i","d">> -> "VOID"
      [] text = <<"r","e","t","u","r","n">> -> "RETURN"
      [] text = <<"i","f">> -> "IF"
      [] text = <<"e","l","s","e">> -> "ELSE"
      [] text = <<"w","h","i","l","e">> -> "WHILE"
      [] text = <<"f","o","r">> -> "FOR"
      [] text = <<"t","r","u","e">> -> "TRUE"
      [] text = <<"f","a","l","s","e">> -> "FALSE"
      [] OTHER -> "IDENTIFIER"

(***************************************************************************)
(* Lexer (src/src/lexer.cpp).  L is the record of the Lexer's mutable      *)
(* fields; every lex_* operator returns the fields after the call and the  *)
(* token returned.                                                         *)
(***************************************************************************)
NewLexer == [current_pos_ |-> 0, current_position_ |-> SourcePosition(1, 1, 0),
             errors_ |-> <<>>, peeked_token_ |-> <<>>]

current_char(src, L) ==
    IF L.current_pos_ >= Len(src) THEN NUL ELSE src[L.current_pos_ + 1]

peek_char(src, L) ==
    LET pos == L.current_pos_ + 1
    IN  IF pos >= Len(src) THEN NUL ELSE src[pos + 1]

advance(src, L) ==
    IF L.current_pos_ < Len(src)
    THEN [L EXCEPT !.current_pos_ = @ + 1,
                   !.current_position_ =
                       IF src[L.current_pos_ + 1] = "\n"
                       THEN SourcePosition(@.line + 1, 1, @.offset + 1)
                       ELSE SourcePosition(@.line, @.column + 1, @.offset + 1)]
    ELSE L

lexer_at_end(src, L) == L.current_pos_ >= Len(src)

\* A span that ends where it starts.
empty_span(L, start) == SourceSpan(start, start)

make_span(L, start) == SourceSpan(start, L.current_position_)

make_token(L, type, value, start) ==
    [lx |-> L, tok |-> Token(type, value, make_span(L, start))]

report_error(L, message, start) ==
    [L EXCEPT !.errors_ = Append(@, [message |-> message, span |-> make_span(L, start)])]

\* An ERROR token that is not recorded in errors_.
unreported_error_token(L, message, start) ==
    [lx |-> L, tok |-> Token("ERROR", message, make_span(L, start))]

make_error_token(L, message, start) ==
    [lx |-> report_error(L, message, start),
     tok |-> Token("ERROR", message, make_span(L, start))]

\* while (current_pos_ < length && current_char() in S) { text += current_char(); advance(); }
RECURSIVE ScanWhile(_, _, _, _)
ScanWhile(src, L, S, text) ==
    IF L.current_pos_ < Len(src) /\ current_char(src, L) \in S
    THEN ScanWhile(src, advance(src, L), S, Append(text, current_char(src, L)))
    ELSE [lx |-> L, text |-> text]

\* while (current_pos_ < length && current_char() != stop) { text += current_char(); advance(); }
RECURSIVE ScanUntil(_, _, _, _)
ScanUntil(src, L, stop, text) ==
    IF L.current_pos_ < Len(src) /\ current_char(src, L) # stop
    THEN ScanUntil(src, advance(src, L), stop, Append(text, current_char(src, L)))
    ELSE [lx |-> L, text |-> text]

lex_identifier_or_keyword(src, L) ==
    LET start_pos == L.current_position_
        s == ScanWhile(src, L, LowerChars \cup UpperChars \cup DigitChars \cup {"_"}, <<>>)
    IN  make_token(s.lx, keyword_or_identifier(s.text), s.text, start_pos)

\* number += current_char(); advance();  done twice for the 0x / 0b prefix
TakeTwo(src, L) ==
    LET L1 == advance(src, L)
    IN  [lx |-> advance(src, L1), text |-> <<current_char(src, L), current_char(src, L1)>>]

lex_number(src, L) ==
    LET start_pos == L.current_position_
    IN  IF current_char(src, L) = "0" /\ peek_char(src, L) = "x"
        THEN LET p == TakeTwo(src, L)
                 s == ScanWhile(src, p.lx,
                        DigitChars \cup {"a","b","c","d","e","f","A","B","C","D","E","F"}, p.text)
             IN  make_token(s.lx, "INTEGER_LITERAL", s.text, start_pos)
        ELSE IF current_char(src, L) = "0" /\ peek_char(src, L) = "b"
        THEN LET p == TakeTwo(src, L)
                 s == ScanWhile(src, p.lx, {"0", "1"}, p.text)
             IN  make_token(s.lx, "INTEGER_LITERAL", s.text, start_pos)
        ELSE IF current_char(src, L) = "0" /\ is_digit(peek_char(src, L))
        THEN LET s == ScanWhile(src, L, {"0","1","2","3","4","5","6","7"}, <<>>)
             IN  make_token(s.lx, "INTEGER_LITERAL", s.text, start_pos)
        ELSE LET s == ScanWhile(src, L, DigitChars, <<>>)
             IN  IF current_char(src, s.lx) = "." /\ is_digit(peek_char(src, s.lx))
                 THEN LET f == ScanWhile(src, advance(src, s.lx), DigitChars,
                                         Append(s.text, "."))
                      IN  make_token(f.lx, "FLOAT_LITERAL", f.text, start_pos)
                 ELSE make_token(s.lx, "INTEGER_LITERAL", s.text, start_pos)

\* The escape switch of lex_string_literal and lex_char_literal: the character an
\* escape stands for, <<>> when the escape is invalid.
EscapeOf(c) ==
    CASE c = "n" -> <<"\n">>
      [] c = "t" -> <<"\t">>
      [] c = "r" -> <<"\r">>
      [] c = "\\" -> <<"\\">>
      [] c = "\"" -> <<"\"">>
      [] c = "'" -> <<"'">>
      [] c = "0" -> <<NUL>>
      [] OTHER -> <<>>

RECURSIVE StringBody(_, _, _, _)
StringBody(src, L, literal, start_pos) ==
    IF L.current_pos_ < Len(src) /\ current_char(src, L) # "\""
    THEN IF current_char(src, L) = "\\"
         THEN LET L1 == advance(src, L)
              IN  IF L1.current_pos_ >= Len(src)
                  THEN make_error_token(L1, <<"Unterminated string literal">>, start_pos)
                  ELSE IF EscapeOf(current_char(src, L1)) = <<>>
                  THEN make_error_token(L1, <<"Invalid escape sequence">>, start_pos)
                  ELSE StringBody(src, advance(src, L1),
                                  literal \o EscapeOf(current_char(src, L1)), start_pos)
         ELSE StringBody(src, advance(src, L), Append(literal, current_char(src, L)),
                         start_pos)
    ELSE IF L.current_pos_ >= Len(src)
    THEN make_error_token(L, <<"Unterminated string literal">>, start_pos)
    ELSE make_token(advance(src, L), "STRING_LITERAL", literal, start_pos)

lex_string_literal(src, L) ==
    StringBody(src, advance(src, L), <<>>, L.current_position_)

\* The tail of lex_char_literal, after the one logical character was read.
CharClose(src, L, literal, start_pos) ==
    IF L.current_pos_ >= Len(src) \/ current_char(src, L) # "'"
    THEN make_error_token(L, <<"Unterminated character literal">>, start_pos)
    ELSE make_token(advance(src, L), "CHAR_LITERAL", literal, start_pos)

lex_char_literal(src, L) ==
    LET start_pos == L.current_position_
        L1 == advance(src, L)
    IN  IF L1.current_pos_ >= Len(src) \/ current_char(src, L1) = "'"
        THEN make_error_token(L1, <<"Empty character literal">>, start_pos)
        ELSE IF current_char(src, L1) = "\\"
        THEN LET L2 == advance(src, L1)
             IN  IF L2.current_pos_ >= Len(src)
                 THEN make_error_token(L2, <<"Unterminated character literal">>, start_pos)
                 ELSE IF EscapeOf(current_char(src, L2)) = <<>>
                 THEN make_error_token(L2,
                          <<"Invalid escape sequence in character literal">>, start_pos)
                 ELSE CharClose(src, advance(src, L2), EscapeOf(current_char(src, L2)),
                                start_pos)
        ELSE CharClose(src, advance(src, L1), <<current_char(src, L1)>>, start_pos)

lex_single_line_comment(src, L) ==
    LET s == ScanUntil(src, L, "\n", <<>>)
    IN  make_token(s.lx, "SINGLE_LINE_COMMENT", s.text, L.current_position_)

\* The while loop of lex_multi_line_comment: ends after the closing */ or at the end.
RECURSIVE CommentBody(_, _, _)
CommentBody(src, L, comment) ==
    IF L.current_pos_ < Len(src)
    THEN IF current_char(src, L) = "*" /\ peek_char(src, L) = "/"
         THEN LET p == TakeTwo(src, L) IN [lx |-> p.lx, text |-> comment \o p.text]
         ELSE CommentBody(src, advance(src, L), Append(comment, current_char(src, L)))
    ELSE [lx |-> L, text |-> comment]

lex_multi_line_comment(src, L) ==
    LET start_pos == L.current_position_
        b == CommentBody(src, advance(src, advance(src, L)), <<>>)
    IN  IF b.lx.current_pos_ >= Len(src)
        THEN make_error_token(b.lx, <<"Unterminated multi-line comment">>, start_pos)
        ELSE make_token(b.lx, "MULTI_LINE_COMMENT", b.text, start_pos)

\* advance(); if (match(second)) return two; ... return one;
\* `pairs` maps the second character of each two-character operator to its type.
OneOrTwo(src, L, pairs, one) ==
    LET start_pos == L.current_position_
        L1 == advance(src, L)
        c2 == current_char(src, L1)
    IN  IF c2 \in DOMAIN pairs
        THEN make_token(advance(src, L1), pairs[c2], <<>>, start_pos)
        ELSE IF one = "ERROR"
        THEN make_error_token(L1, <<"Invalid character '", current_char(src, L), "'">>,
                              start_pos)
        ELSE make_token(L1, one, <<>>, start_pos)

Punctuation ==
    [c \in {";", ",", ".", ":", "(", ")", "{", "}", "[", "]"} |->
        CASE c = ";" -> "SEMICOLON" [] c = "," -> "COMMA" [] c = "." -> "DOT"
          [] c = ":" -> "COLON" [] c = "(" -> "LEFT_PAREN" [] c = ")" -> "RIGHT_PAREN"
          [] c = "{" -> "LEFT_BRACE" [] c = "}" -> "RIGHT_BRACE"
          [] c = "[" -> "LEFT_BRACKET" [] c = "]" -> "RIGHT_BRACKET"]

lex_operator_or_punctuation(src, L) ==
    LET c == current_char(src, L)
        eq(t) == [x \in {"="} |-> t]
    IN  CASE c = "+" -> OneOrTwo(src, L, eq("PLUS_ASSIGN"), "PLUS")
          [] c = "-" -> OneOrTwo(src, L, [x \in {"=", ">"} |->
                                  IF x = "=" THEN "MINUS_ASSIGN" ELSE "ARROW"], "MINUS")
          [] c = "*" -> OneOrTwo(src, L, eq("MULTIPLY_ASSIGN"), "MULTIPLY")
          [] c = "/" -> OneOrTwo(src, L, eq("DIVIDE_ASSIGN"), "DIVIDE")
          [] c = "%" -> OneOrTwo(src, L, eq("MODULO_ASSIGN"), "MODULO")
          [] c = "=" -> OneOrTwo(src, L, eq("EQUAL"), "ASSIGN")
          [] c = "!" -> OneOrTwo(src, L, eq("NOT_EQUAL"), "LOGICAL_NOT")
          [] c = "<" -> OneOrTwo(src, L, eq("LESS_EQUAL"), "LESS_THAN")
          [] c = ">" -> OneOrTwo(src, L, eq("GREATER_EQUAL"), "GREATER_THAN")
          [] c = "&" -> OneOrTwo(src, L, [x \in {"&"} |-> "LOGICAL_AND"], "ERROR")
          [] c = "|" -> OneOrTwo(src, L, [x \in {"|"} |-> "LOGICAL_OR"], "ERROR")
          [] c \in DOMAIN Punctuation ->
                make_token(advance(src, L), Punctuation[c], <<>>, L.current_position_)
          [] OTHER ->
                make_error_token(advance(src, L), <<"Unexpected character '", c, "'">>,
                                 L.current_position_)

\* Lexer::next_token, with the peeked token drained first.
RECURSIVE next_token(_, _, _)
next_token(src, cfg, L) ==
    IF L.peeked_token_ # <<>>
    THEN [lx |-> [L EXCEPT !.peeked_token_ = <<>>], tok |-> L.peeked_token_[1]]
    ELSE IF L.current_pos_ < Len(src) /\ is_whitespace(current_char(src, L))
            /\ cfg.emit_whitespace
    THEN LET s == ScanWhile(src, L, {" ", "\t", "\n", "\r"}, <<>>)
         IN  make_token(s.lx, "WHITESPACE", s.text, L.current_position_)
    ELSE LET W == ScanWhile(src, L, {" ", "\t", "\n", "\r"}, <<>>).lx
             c == current_char(src, W)
         IN  IF W.current_pos_ >= Len(src)
             THEN make_token(W, "EOF_TOKEN", <<>>, W.current_position_)
             ELSE IF is_alpha(c) \/ c = "_" THEN lex_identifier_or_keyword(src, W)
             ELSE IF is_digit(c) THEN lex_number(src, W)
             ELSE IF c = "\"" THEN lex_string_literal(src, W)
             ELSE IF c = "'" THEN lex_char_literal(src, W)
             ELSE IF c = "/" /\ peek_char(src, W) = "/"
             THEN LET t == lex_single_line_comment(src, W)
                  IN  IF cfg.emit_comments THEN t ELSE next_token(src, cfg, t.lx)
             ELSE IF c = "/" /\ peek_char(src, W) = "*"
             THEN LET t == lex_multi_line_comment(src, W)
                  IN  IF cfg.emit_comments THEN t ELSE next_token(src, cfg, t.lx)
             ELSE lex_operator_or_punctuation(src, W)

\* A peek_token() that lexes the next token and does not cache it.
peek_without_cache(src, cfg, L) == next_token(src, cfg, L)

\* Lexer::peek_token: fills the one-token cache when it is empty.
peek_token(src, cfg, L) ==
    IF L.peeked_token_ = <<>>
    THEN LET t == next_token(src, cfg, L)
         IN  [lx |-> [t.lx EXCEPT !.peeked_token_ = <<t.tok>>], tok |-> t.tok]
    ELSE [lx |-> L, tok |-> L.peeked_token_[1]]

\* Lexer::tokenize_all: the loop runs while !at_end() and stops after an EOF token.
RECURSIVE TokenizeLoop(_, _, _, _)
TokenizeLoop(src, cfg, L, toks) ==
    IF ~lexer_at_end(src, L)
    THEN LET t == next_token(src, cfg, L)
         IN  IF t.tok.type = "EOF_TOKEN"
             THEN [lx |-> t.lx, toks |-> Append(toks, t.tok)]
             ELSE TokenizeLoop(src, cfg, t.lx, Append(toks, t.tok))
    ELSE [lx |-> L, toks |-> toks]

tokenize_all(src, cfg, L) == TokenizeLoop(src, cfg, L, <<>>)

(***************************************************************************)
(* Parser (src/src/parser.cpp).  P is the record of the Parser's mutable   *)
(* fields current_token_ and errors_; toks is tokens_.  A parse_* operator *)
(* returns the fields after the call (ps) and the node built (node), a     *)
(* unique_ptr being <<>> when null and <<n>> otherwise.                    *)
(***************************************************************************)
NewParser == [current_token_ |-> 0, errors_ |-> <<>>]

Parser_current_token(toks, P) ==
    IF P.current_token_ >= Len(toks)
    THEN Token("EOF_TOKEN", <<>>, DefaultSpan)
    ELSE toks[P.current_token_ + 1]

Parser_at_end(toks, P) ==
    P.current_token_ >= Len(toks) \/ Parser_current_token(toks, P).type = "EOF_TOKEN"

Parser_check(toks, P, type) == Parser_current_token(toks, P).type = type

\* An advance() that moves past the end of tokens_.
advance_past_end(toks, P) == [P EXCEPT !.current_token_ = Len(toks) + 1]

Parser_advance(toks, P) ==
    IF ~Parser_at_end(toks, P) THEN [P EXCEPT !.current_token_ = @ + 1] ELSE P

Parser_report_error(toks, P, message) ==
    [P EXCEPT !.errors_ =
        Append(@, [message |-> message, span |-> Parser_current_token(toks, P).span])]

consume(toks, P, type, error_message) ==
    IF Parser_check(toks, P, type)
    THEN [ps |-> Parser_advance(toks, P), tok |-> Parser_current_token(toks, P)]
    ELSE [ps |-> Parser_report_error(toks, P, error_message),
          tok |-> Parser_current_token(toks, P)]

parse_primary_expression(toks, P) ==
    IF Parser_check(toks, P, "INTEGER_LITERAL")
    THEN LET token == Parser_current_token(toks, P)
         IN  [ps |-> Parser_advance(toks, P),
              node |-> <<[type |-> "INTEGER_LITERAL", value |-> token.value,
                          span |-> token.span]>>]
    ELSE [ps |-> Parser_report_error(toks, P, "Expected expression"), node |-> <<>>]

parse_expression(toks, P) == parse_primary_expression(toks, P)

parse_return_statement(toks, P) ==
    Bind(consume(toks, P, "RETURN", "Expected 'return'"), LAMBDA return_token :
    Bind(IF ~Parser_check(toks, return_token.ps, "SEMICOLON")
         THEN parse_expression(toks, return_token.ps)
         ELSE [ps |-> return_token.ps, node |-> <<>>], LAMBDA expression :
    Bind(consume(toks, expression.ps, "SEMICOLON", "Expected ';' after return statement"),
         LAMBDA semicolon :
    [ps |-> semicolon.ps,
     node |-> <<[type |-> "RETURN_STATEMENT", expression |-> expression.node,
                 span |-> SourceSpan(return_token.tok.span.start,
                                     semicolon.tok.span.end)]>>])))

parse_statement(toks, P) ==
    IF Parser_check(toks, P, "RETURN")
    THEN parse_return_statement(toks, P)
    ELSE [ps |-> Parser_report_error(toks, P, "Expected statement"), node |-> <<>>]

\* The while loop of synchronize, after its first advance().
RECURSIVE SynchronizeLoop(_, _)
SynchronizeLoop(toks, P) ==
    IF ~Parser_at_end(toks, P)
    THEN IF Parser_current_token(toks, P).type = "SEMICOLON"
         THEN Parser_advance(toks, P)
         ELSE IF Parser_current_token(toks, P).type \in {"FN", "RETURN"}
         THEN P
         ELSE SynchronizeLoop(toks, Parser_advance(toks, P))
    ELSE P

\* A synchronize() without its first advance().
synchronize_in_place(toks, P) == SynchronizeLoop(toks, P)

synchronize(toks, P) == SynchronizeLoop(toks, Parser_advance(toks, P))

\* The while loop of parse_block_statement.
RECURSIVE BlockLoop(_, _, _)
BlockLoop(toks, P, statements) ==
    IF ~Parser_check(toks, P, "RIGHT_BRACE") /\ ~Parser_at_end(toks, P)
    THEN Bind(parse_statement(toks, P), LAMBDA statement :
         IF statement.node # <<>>
         THEN BlockLoop(toks, statement.ps, statements \o statement.node)
         ELSE BlockLoop(toks, synchronize(toks, statement.ps), statements))
    ELSE [ps |-> P, statements |-> statements]

parse_block_statement(toks, P) ==
    Bind(consume(toks, P, "LEFT_BRACE", "Expected '{'"), LAMBDA left_brace :
    Bind(BlockLoop(toks, left_brace.ps, <<>>), LAMBDA block :
    Bind(consume(toks, block.ps, "RIGHT_BRACE", "Expected '}' after block"),
         LAMBDA right_brace :
    [ps |-> right_brace.ps,
     node |-> <<[type |-> "BLOCK_STATEMENT", statements |-> block.statements,
                 span |-> SourceSpan(left_brace.tok.span.start,
                                     right_brace.tok.span.end)]>>])))

parse_type(toks, P) ==
    Bind(consume(toks, P, "IDENTIFIER", "Expected type name"), LAMBDA type_token :
    [ps |-> type_token.ps,
     node |-> <<[type |-> "TYPE", name |-> type_token.tok.value,
                 span |-> type_token.tok.span]>>])

parse_function_declaration(toks, P) ==
    Bind(consume(toks, P, "FN", "Expected 'fn'"), LAMBDA fn_token :
    Bind(consume(toks, fn_token.ps, "IDENTIFIER", "Expected function name"),
         LAMBDA name_token :
    Bind(consume(toks, name_token.ps, "LEFT_PAREN", "Expected '(' after function name"),
         LAMBDA left_paren :
    Bind(consume(toks, left_paren.ps, "RIGHT_PAREN", "Expected ')' after parameters"),
         LAMBDA right_paren :
    Bind(parse_type(toks, right_paren.ps), LAMBDA return_type :
    Bind(parse_block_statement(toks, return_type.ps), LAMBDA body :
    [ps |-> body.ps,
     node |-> <<[type |-> "FUNCTION_DECLARATION",
                 function_name |-> name_token.tok.value,
                 return_type |-> return_type.node,
                 body |-> body.node,
                 span |-> SourceSpan(fn_token.tok.span.start,
                             IF body.node # <<>> THEN body.node[1].span.end
                             ELSE Parser_current_token(toks, body.ps).span.end)]>>]))))))

parse_package_declaration(toks, P) ==
    Bind(consume(toks, P, "PACKAGE", "Expected 'package'"), LAMBDA package_token :
    Bind(consume(toks, package_token.ps, "IDENTIFIER", "Expected package name"),
         LAMBDA name_token :
    Bind(consume(toks, name_token.ps, "SEMICOLON", "Expected ';' after package declaration"),
         LAMBDA semicolon :
    [ps |-> semicolon.ps,
     node |-> <<[type |-> "PACKAGE_DECLARATION",
                 package_name |-> name_token.tok.value,
                 span |-> SourceSpan(package_token.tok.span.start,
                                     name_token.tok.span.end)]>>])))

\* An else branch that also consumes the token it reports.
skip_not_a_function(toks, P, declarations) ==
    [ps |-> Parser_advance(toks, Parser_report_error(toks, P, "Expected function declaration")),
     declarations |-> declarations]

\* The else branch of the loop of parse_program: report_error(...); break;
not_a_function(toks, P, declarations) ==
    [ps |-> Parser_report_error(toks, P, "Expected function declaration"),
     declarations |-> declarations]

\* The while loop of parse_program.
RECURSIVE DeclarationLoop(_, _, _)
DeclarationLoop(toks, P, declarations) ==
    IF ~Parser_at_end(toks, P)
    THEN IF Parser_check(toks, P, "FN")
         THEN Bind(parse_function_declaration(toks, P), LAMBDA func_decl :
              DeclarationLoop(toks, func_decl.ps, declarations \o func_decl.node))
         ELSE not_a_function(toks, P, declarations)
    ELSE [ps |-> P, declarations |-> declarations]

parse_program(toks, P) ==
    Bind(IF Parser_check(toks, P, "PACKAGE")
         THEN parse_package_declaration(toks, P)
         ELSE [ps |-> P, node |-> <<>>], LAMBDA package_decl :
    Bind(DeclarationLoop(toks, package_decl.ps, <<>>), LAMBDA decls :
    [ps |-> decls.ps,
     node |-> <<[type |-> "PROGRAM", package_declaration |-> package_decl.node,
                 declarations |-> decls.declarations, span |-> DefaultSpan]>>]))

parse(toks, P) == parse_program(toks, P)

(***************************************************************************)
(* Values (src/src/value.h).  A Boolean payload is 1 for true and 0 for    *)
(* false, a Nil payload 0, so that any two Values can be compared.         *)
(***************************************************************************)
Nil == [t |-> "NIL", v |-> 0]
Integer(n) == [t |-> "INTEGER", v |-> n]
Boolean(b) == [t |-> "BOOLEAN", v |-> IF b THEN 1 ELSE 0]
is_integer(x) == x.t = "INTEGER"

\* An equality that compares the payloads and not the alternatives.
PayloadEq(a, b) == a.v = b.v

\* Value::operator== : std::variant equality, the alternative then the payload.
ValueEq(a, b) == a.t = b.t /\ a.v = b.v

(***************************************************************************)
(* Chunk (src/src/chunk.h, src/src/chunk.cpp).                             *)
(***************************************************************************)
OP_CONSTANT == 0
OP_RETURN == 1
OP_ADD == 2
OP_SUBTRACT == 3
OP_MULTIPLY == 4
OP_DIVIDE == 5
OP_EQUAL == 6
OP_NOT_EQUAL == 7
OP_LESS == 8
OP_LESS_EQUAL == 9
OP_GREATER == 10
OP_GREATER_EQUAL == 11

EmptyChunk == [code |-> <<>>, constants |-> <<>>]
write_byte(ch, byte) == [ch EXCEPT !.code = Append(@, byte)]
write_opcode(ch, opcode) == write_byte(ch, opcode)
\* add_constant returns the index constants_.size() - 1 of the value it appended.
add_constant(ch, value) ==
    [chunk |-> [ch EXCEPT !.constants = Append(@, value)], index |-> Len(ch.constants)]
\* static_cast<uint8_t>(size_t)
ToByte(n) == n % 256

(***************************************************************************)
(* Compiler (src/src/compiler.cpp).                                        *)
(***************************************************************************)
INT_MAX == 2147483647

DigitValue(c) ==
    CASE c = "0" -> 0 [] c = "1" -> 1 [] c = "2" -> 2 [] c = "3" -> 3 [] c = "4" -> 4
      [] c = "5" -> 5 [] c = "6" -> 6 [] c = "7" -> 7 [] c = "8" -> 8 [] c = "9" -> 9

\* The digits std::stoi converts: the longest run of decimal digits from index i,
\* accumulated in base 10 (negated when the sign is '-'); ok is FALSE once the value
\* leaves the range of int, n counts the digits read.
RECURSIVE StoiDigits(_, _, _, _, _)
StoiDigits(text, i, neg, acc, n) ==
    IF i <= Len(text) /\ text[i] \in DigitChars
    THEN LET d == DigitValue(text[i])
         IN  IF neg
             THEN IF -acc > (IF d = 0 THEN INT_MAX \div 10 ELSE (INT_MAX - d + 1) \div 10)
                  THEN [ok |-> FALSE, value |-> 0, digits |-> n + 1]
                  ELSE StoiDigits(text, i + 1, neg, acc * 10 - d, n + 1)
             ELSE IF acc > (INT_MAX - d) \div 10
                  THEN [ok |-> FALSE, value |-> 0, digits |-> n + 1]
                  ELSE StoiDigits(text, i + 1, neg, acc * 10 + d, n + 1)
    ELSE [ok |-> TRUE, value |-> acc, digits |-> n]

\* Index of the first character of text, from i, that is not white space.
RECURSIVE SkipSpace(_, _)
SkipSpace(text, i) ==
    IF i <= Len(text) /\ text[i] \in {" ", "\t", "\n", "\r"} THEN SkipSpace(text, i + 1) ELSE i

\* std::stoi(text): skips leading white space, takes an optional sign and the
\* decimal digits that follow, and ignores the rest of text; it throws
\* (ok = FALSE) when there is no digit or the value is out of the range of int.
stoi(text) ==
    Bind(SkipSpace(text, 1), LAMBDA i :
    Bind(i <= Len(text) /\ text[i] \in {"+", "-"}, LAMBDA signed :
    Bind(StoiDigits(text, IF signed THEN i + 1 ELSE i, signed /\ text[i] = "-", 0, 0),
         LAMBDA r :
    IF r.digits = 0 THEN [ok |-> FALSE, value |-> 0] ELSE [ok |-> r.ok, value |-> r.value])))

\* A check that lets every constant index through.
index_never_too_large(const_idx) == FALSE

\* if (const_idx > 255): the constant index does not fit in a byte.
index_too_large(const_idx) == const_idx > 255

compile_expression(expr, ch) ==
    IF expr.type = "INTEGER_LITERAL"
    THEN Bind(stoi(expr.value), LAMBDA value :
         IF ~value.ok
         THEN [result |-> "ERROR", chunk |-> ch, error |-> "Invalid integer literal"]
         ELSE Bind(add_constant(ch, Integer(value.value)), LAMBDA const :
              IF index_too_large(const.index)
              THEN [result |-> "ERROR", chunk |-> const.chunk,
                    error |-> "Too many constants"]
              ELSE [result |-> "OK",
                    chunk |-> write_byte(write_opcode(const.chunk, OP_CONSTANT),
                                         ToByte(const.index)),
                    error |-> ""]))
    ELSE [result |-> "ERROR", chunk |-> ch, error |-> "Unsupported expression type"]

compile_statement(stmt, ch) ==
    IF stmt.type = "RETURN_STATEMENT"
    THEN IF stmt.expression # <<>>
         THEN Bind(compile_expression(stmt.expression[1], ch), LAMBDA e :
              IF e.result # "OK" THEN e
              ELSE [e EXCEPT !.chunk = write_opcode(@, OP_RETURN)])
         ELSE Bind(add_constant(ch, Nil), LAMBDA nil :
              [result |-> "OK",
               chunk |-> write_opcode(write_byte(write_opcode(nil.chunk, OP_CONSTANT),
                                                 ToByte(nil.index)), OP_RETURN),
               error |-> ""])
    ELSE [result |-> "ERROR", chunk |-> ch, error |-> "Unsupported statement type"]

\* The iterations of the for loop of compile_function for statements lo..hi, in
\* order, left at the first statement that does not compile: the first half of
\* the range, then the second half on the chunk the first half left.
RECURSIVE StatementRange(_, _, _, _)
StatementRange(statements, lo, hi, ch) ==
    IF lo = hi THEN compile_statement(statements[lo], ch)
    ELSE Bind(StatementRange(statements, lo, (lo + hi) \div 2, ch), LAMBDA r :
         IF r.result # "OK" THEN r
         ELSE StatementRange(statements, ((lo + hi) \div 2) + 1, hi, r.chunk))

\* The for loop of compile_function over func.body->statements, from statement i.
StatementLoop(statements, i, ch) ==
    IF i > Len(statements) THEN [result |-> "OK", chunk |-> ch, error |-> ""]
    ELSE StatementRange(statements, i, Len(statements), ch)

compile_function(func, ch) ==
    IF func.body = <<>>
    THEN [result |-> "ERROR", chunk |-> ch, error |-> "Function has no body"]
    ELSE StatementLoop(func.body[1].statements, 1, ch)

\* What compile does after error_message_.clear().
CompileBody(program, ch) ==
    IF program.declarations = <<>>
    THEN [result |-> "ERROR", chunk |-> ch, error |-> "No functions to compile"]
    ELSE IF Len(program.declarations) > 1
    THEN [result |-> "ERROR", chunk |-> ch, error |-> "Multiple functions not yet supported"]
    ELSE IF program.declarations[1].type # "FUNCTION_DECLARATION"
    THEN [result |-> "ERROR", chunk |-> ch, error |-> "Expected function declaration"]
    ELSE compile_function(program.declarations[1], ch)

\* A compile that leaves the message of the previous call in place.
keep_error_message(msg) == msg

\* error_message_.clear() at the head of compile.
clear_error_message(msg) == ""

\* Compiler::compile on a Compiler whose error_message_ is msg: the message is
\* cleared first, and compile_error() overwrites it on the failing path.
compile(program, ch, msg) ==
    Bind(CompileBody(program, ch), LAMBDA r :
    [result |-> r.result, chunk |-> r.chunk,
     error_message_ |-> IF r.result = "ERROR" THEN r.error ELSE clear_error_message(msg)])

has_errors(msg) == msg # ""

(***************************************************************************)
(* VM (src/src/vm.cpp).  V is the record of the VM's fields stack_ and     *)
(* error_message_; cfg holds max_stack_size, debug_mode and ub, what the   *)
(* build does with an undefined operation.                                 *)
(***************************************************************************)
NewVM == [stack_ |-> <<>>, error_message_ |-> ""]

\* A reset() that clears the error message and keeps the stack.
reset_keeps_stack(V) == [V EXCEPT !.error_message_ = ""]

\* A reset() that empties the stack and keeps the error message.
reset_keeps_error(V) == [V EXCEPT !.stack_ = <<>>]

\* VM::reset
reset(V) == [V EXCEPT !.stack_ = <<>>, !.error_message_ = ""]

runtime_error(V, message) == [V EXCEPT !.error_message_ = message]

\* A push() that does not look at max_stack_size.
push_unbounded(V, cfg, value) == [V EXCEPT !.stack_ = Append(@, value)]

\* VM::push: on a full stack it records the error and returns without pushing.
push(V, cfg, value) ==
    IF Len(V.stack_) >= cfg.max_stack_size
    THEN runtime_error(V, "Stack overflow")
    ELSE [V EXCEPT !.stack_ = Append(@, value)]

\* VM::pop on a non-empty stack: the fields after the call; Top is the value popped.
pop(V) == [V EXCEPT !.stack_ = SubSeq(@, 1, Len(@) - 1)]
Top(V) == V.stack_[Len(V.stack_)]

\* The least int32_t.
INT_MIN == -INT_MAX - 1

\* What a build does with an undefined operation: it carries on (an int operation
\* keeps the low 32 bits, a division by zero gives 0, a read past the end of a
\* vector yields some byte), or the process is killed.
UBOutcomes == {"carry_on", "trap"}

\* a + b is outside int32_t, and its low 32 bits as an int32_t.
AddOverflows(a, b) == (b > 0 /\ a > INT_MAX - b) \/ (b < 0 /\ a < INT_MIN - b)
WrapAdd(a, b) ==
    IF b > 0 /\ a > INT_MAX - b THEN (a - INT_MAX - 1) + (b - INT_MAX - 1)
    ELSE IF b < 0 /\ a < INT_MIN - b THEN (a + INT_MAX + 1) + (b + INT_MAX + 1)
    ELSE a + b

SubOverflows(a, b) == (b < 0 /\ a > INT_MAX + b) \/ (b > 0 /\ a < INT_MIN + b)
WrapSub(a, b) ==
    IF b < 0 /\ a > INT_MAX + b THEN (a - INT_MAX - 1) - (b + INT_MAX + 1)
    ELSE IF b > 0 /\ a < INT_MIN + b THEN (a + INT_MAX + 1) - (b - INT_MAX - 1)
    ELSE a - b

\* a * b on int32_t, computed on 16-bit halves of the magnitudes: ovf holds when
\* the exact product is outside int32_t, and v is its low 32 bits as an int32_t.
Magnitude(x) == IF x < 0 THEN -x ELSE x

\* x * y for x, y < 2^16 is High16Product(x, y) * 2^16 + PartialSum(x, y) % 2^16.
PartialSum(x, y) == (x % 256) * y + (((x \div 256) * y) % 256) * 256
High16Product(x, y) == ((x \div 256) * y) \div 256 + (PartialSum(x, y) \div 65536)

\* The int32_t with the bits hi * 2^16 + lo.
Signed32(hi, lo) == IF hi >= 32768 THEN (hi - 65536) * 65536 + lo ELSE hi * 65536 + lo

\* The low 32 bits of m * n for magnitudes m, n <= INT_MAX.
ProductBits(m, n) ==
    Signed32((High16Product(m % 65536, n % 65536)
              + (((m \div 65536) * (n % 65536)) % 65536)
              + (((m % 65536) * (n \div 65536)) % 65536)) % 65536,
             PartialSum(m % 65536, n % 65536) % 65536)

\* -v on the low 32 bits.
Negate32(v) == IF v = INT_MIN THEN INT_MIN ELSE -v

\* m * n, negated when neg, is an int32_t (m, n >= 1).
ProductFits(m, n, neg) ==
    \/ m <= INT_MAX \div n
    \/ neg /\ n >= 2 /\ INT_MAX % n = n - 1 /\ m = (INT_MAX \div n) + 1

Multiply(a, b) ==
    IF a = 0 \/ b = 0 THEN [v |-> 0, ovf |-> FALSE]
    ELSE IF a = INT_MIN \/ b = INT_MIN
    THEN IF a = 1 \/ b = 1 THEN [v |-> INT_MIN, ovf |-> FALSE]
         ELSE [v |-> IF (a % 2 = 1) \/ (b % 2 = 1) THEN INT_MIN ELSE 0, ovf |-> TRUE]
    ELSE [v |-> IF (a < 0) # (b < 0)
                THEN Negate32(ProductBits(Magnitude(a), Magnitude(b)))
                ELSE ProductBits(Magnitude(a), Magnitude(b)),
          ovf |-> ~ProductFits(Magnitude(a), Magnitude(b), (a < 0) # (b < 0))]

\* C++ integer division truncates toward zero; a / b for b # 0 and (a, b) # (INT_MIN, -1).
TruncDiv(a, b) ==
    IF b > 0
    THEN IF a >= 0 \/ a % b = 0 THEN a \div b ELSE (a \div b) + 1
    ELSE IF b = INT_MIN THEN IF a = INT_MIN THEN 1 ELSE 0
    ELSE IF a >= 0 \/ a % (-b) = 0 THEN -(a \div (-b)) ELSE -((a \div (-b)) + 1)

\* "addition" ... in "Not enough values on stack for addition".
BinaryName(op) ==
    CASE op = OP_ADD -> "addition" [] op = OP_SUBTRACT -> "subtraction"
      [] op = OP_MULTIPLY -> "multiplication" [] op = OP_DIVIDE -> "division"
      [] op = OP_EQUAL -> "equality comparison" [] op = OP_NOT_EQUAL -> "inequality comparison"
      [] op = OP_LESS -> "less than comparison" [] op = OP_LESS_EQUAL -> "less or equal comparison"
      [] op = OP_GREATER -> "greater than comparison"
      [] op = OP_GREATER_EQUAL -> "greater or equal comparison"

\* "Addition" ... in "Addition requires integer values".
BinaryTitle(op) ==
    CASE op = OP_ADD -> "Addition" [] op = OP_SUBTRACT -> "Subtraction"
      [] op = OP_MULTIPLY -> "Multiplication" [] op = OP_DIVIDE -> "Division"
      [] op = OP_LESS -> "Less than comparison"
      [] op = OP_LESS_EQUAL -> "Less or equal comparison"
      [] op = OP_GREATER -> "Greater than comparison"
      [] op = OP_GREATER_EQUAL -> "Greater or equal comparison"

\* The value an integer-only binary opcode computes for operands a (below) and b
\* (top): ub holds when the int operation is undefined (signed overflow,
\* INT_MIN / -1, division by zero), and value is then what a build that carries
\* on pushes.
IntegerResult(op, a, b) ==
    CASE op = OP_ADD -> [value |-> Integer(WrapAdd(a, b)), ub |-> AddOverflows(a, b)]
      [] op = OP_SUBTRACT -> [value |-> Integer(WrapSub(a, b)), ub |-> SubOverflows(a, b)]
      [] op = OP_MULTIPLY ->
            [value |-> Integer(Multiply(a, b).v), ub |-> Multiply(a, b).ovf]
      [] op = OP_DIVIDE ->
            IF b = 0 THEN [value |-> Integer(0), ub |-> TRUE]
            ELSE IF a = INT_MIN /\ b = -1 THEN [value |-> Integer(INT_MIN), ub |-> TRUE]
            ELSE [value |-> Integer(TruncDiv(a, b)), ub |-> FALSE]
      [] op = OP_LESS -> [value |-> Boolean(a < b), ub |-> FALSE]
      [] op = OP_LESS_EQUAL -> [value |-> Boolean(a <= b), ub |-> FALSE]
      [] op = OP_GREATER -> [value |-> Boolean(a > b), ub |-> FALSE]
      [] op = OP_GREATER_EQUAL -> [value |-> Boolean(a >= b), ub |-> FALSE]

\* A step's outcome: the VM fields, the instruction pointer, the state of run
\* ("running" while the loop goes on, "KILLED" when the process was killed in
\* the step, else the VMResult returned), and whether push() found the stack
\* full during the step; oob, whether the step read code past its last byte.
Outcome(V, ip, result, full) ==
    [vm |-> V, ip |-> ip, result |-> result, full |-> full, oob |-> FALSE]

\* push(value) inside run, which goes on to `result` whatever push() did.
PushOutcome(V, cfg, value, ip, result) ==
    Outcome(push(V, cfg, value), ip, result, Len(V.stack_) >= cfg.max_stack_size)

\* A divisor that is never reported as zero.
never_zero_divisor(op, b) == FALSE

\* if (b.as_integer() == 0) in the case of OP_DIVIDE.
is_zero_divisor(op, b) == op = OP_DIVIDE /\ b.v = 0

\* The cases of the switch in run for the opcodes that take two operands.
BinaryInstruction(V, cfg, op, ip) ==
    IF Len(V.stack_) < 2
    THEN Outcome(runtime_error(V, "Not enough values on stack for " \o BinaryName(op)),
                 ip, "RUNTIME_ERROR", FALSE)
    ELSE Bind(Top(V), LAMBDA b :
         Bind(Top(pop(V)), LAMBDA a :
         Bind(pop(pop(V)), LAMBDA V2 :
         IF op \in {OP_EQUAL, OP_NOT_EQUAL}
         THEN PushOutcome(V2, cfg, Boolean(IF op = OP_EQUAL THEN ValueEq(a, b)
                                                ELSE ~ValueEq(a, b)), ip, "running")
         ELSE IF ~is_integer(a) \/ ~is_integer(b)
         THEN Outcome(runtime_error(V2, BinaryTitle(op) \o " requires integer values"),
                      ip, "RUNTIME_ERROR", FALSE)
         ELSE IF is_zero_divisor(op, b)
         THEN Outcome(runtime_error(V2, "Division by zero"), ip, "RUNTIME_ERROR", FALSE)
         ELSE Bind(IntegerResult(op, a.v, b.v), LAMBDA r :
              IF r.ub /\ cfg.ub = "trap"
              THEN Outcome(V2, ip, "KILLED", FALSE)
              ELSE PushOutcome(V2, cfg, r.value, ip, "running")))))

\* A default case that breaks out of the switch and lets the loop go on.
skip_unknown_opcode(V, ip) == Outcome(V, ip, "running", FALSE)

\* The default case of the switch in run.
unknown_opcode(V, ip) ==
    Outcome(runtime_error(V, "Unknown opcode"), ip, "RUNTIME_ERROR", FALSE)

\* An OP_RETURN that restores the stack and lets the loop go on.
return_goes_on(V, cfg, ip) ==
    IF V.stack_ = <<>> THEN Outcome(V, ip, "running", FALSE)
    ELSE PushOutcome(pop(V), cfg, Top(V), ip, "running")

\* The case OP_RETURN of the switch in run: result = pop(); push(result); return OK.
return_instruction(V, cfg, ip) ==
    IF V.stack_ = <<>>
    THEN Outcome(runtime_error(V, "Cannot return: stack is empty"),
                 ip, "RUNTIME_ERROR", FALSE)
    ELSE PushOutcome(pop(V), cfg, Top(V), ip, "OK")

\* One iteration of the while loop of run: fetch code[ip], ip++, the switch.
Instruction(ch, cfg, V, ip0) ==
    LET instruction == ch.code[ip0 + 1]
        ip == ip0 + 1
    IN  IF instruction = OP_CONSTANT
        THEN IF ip >= Len(ch.code)
             THEN Outcome(runtime_error(V, "Missing constant index after OP_CONSTANT"),
                          ip, "RUNTIME_ERROR", FALSE)
             ELSE LET constant_index == ch.code[ip + 1]
                  IN  IF constant_index >= Len(ch.constants)
                      THEN Outcome(runtime_error(V, "Invalid constant index"),
                                   ip + 1, "RUNTIME_ERROR", FALSE)
                      ELSE PushOutcome(V, cfg, ch.constants[constant_index + 1],
                                       ip + 1, "running")
        ELSE IF instruction = OP_RETURN
        THEN return_instruction(V, cfg, ip)
        ELSE IF instruction \in {OP_ADD, OP_SUBTRACT, OP_MULTIPLY, OP_DIVIDE, OP_EQUAL,
                                 OP_NOT_EQUAL, OP_LESS, OP_LESS_EQUAL, OP_GREATER,
                                 OP_GREATER_EQUAL}
        THEN BinaryInstruction(V, cfg, instruction, ip)
        ELSE unknown_opcode(V, ip)

\* VM::debug_print_instruction at offset ip0: for OP_CONSTANT it reads
\* code[ip0 + 1], in the code or not.
debug_reads_past_end(ch, cfg, ip0) ==
    cfg.debug_mode /\ ch.code[ip0 + 1] = OP_CONSTANT /\ ip0 + 1 >= Len(ch.code)

\* An iteration followed by the loop test: past the last byte, run returns OK.
Step(ch, cfg, V, ip0) ==
    IF debug_reads_past_end(ch, cfg, ip0) /\ cfg.ub = "trap"
    THEN [Outcome(V, ip0, "KILLED", FALSE) EXCEPT !.oob = TRUE]
    ELSE Bind(Instruction(ch, cfg, V, ip0), LAMBDA o :
         [o EXCEPT !.result = IF @ = "running" /\ o.ip >= Len(ch.code) THEN "OK" ELSE @,
                   !.oob = debug_reads_past_end(ch, cfg, ip0)])

\* The loop of run from instruction pointer ip.
RECURSIVE RunLoop(_, _, _, _)
RunLoop(ch, cfg, V, ip) ==
    Bind(Step(ch, cfg, V, ip), LAMBDA o :
    IF o.result = "running" THEN RunLoop(ch, cfg, o.vm, o.ip) ELSE o)

\* VM::run
VM_run(ch, cfg, V) ==
    IF ch.code = <<>> THEN Outcome(V, 0, "OK", FALSE) ELSE RunLoop(ch, cfg, V, 0)

(***************************************************************************)
(* Values every specification gives the variables it does not exercise.    *)
(***************************************************************************)
NoTokens == [called |-> FALSE, fresh |-> FALSE, toks |-> <<>>]
NoParse == [done |-> FALSE, program |-> <<>>, errors_ |-> <<>>, current_token_ |-> 0]
NoCompiler == [error_message_ |-> "", calls |-> 0, result |-> "NONE",
               previous |-> "NONE", program |-> <<>>, chunk_before |-> <<>>]
NoChunk == [code |-> <<>>, constants |-> <<>>]
NoVM == [stack_ |-> <<>>, error_message_ |-> ""]
NoRun == [state |-> "idle"]

(***************************************************************************)
(* The Lexer specification: one Lexer on one source; the caller interleaves *)
(* next_token() and peek_token(), or calls tokenize_all().                 *)
(***************************************************************************)
LexAlphabet == {"a", "1", " ", "\n", "/", "*", "\"", "'", "&"}

\* All sequences over S of length at most n.
SeqsUpTo(S, n) == UNION {[1..k -> S] : k \in 0..n}

LexConfigs == [emit_comments : BOOLEAN, emit_whitespace : BOOLEAN]

LexInit ==
    /\ stage = "lex"
    /\ source \in SeqsUpTo(LexAlphabet, MaxSrcLen)
    /\ config \in LexConfigs
    /\ lexer = NewLexer
    /\ returned = <<>>
    /\ peeks = <<>>
    /\ tokens = NoTokens
    /\ parsed = NoParse
    /\ compiler = NoCompiler
    /\ chunk = NoChunk
    /\ vm = NoVM
    /\ run = NoRun

LexNextToken ==
    /\ stage = "lex"
    /\ Len(returned) < MaxCalls
    /\ LET t == next_token(source, config, lexer)
       IN  /\ lexer' = t.lx
           /\ returned' = Append(returned, t.tok)
    /\ peeks' = <<>>
    /\ UNCHANGED <<stage, source, config, tokens, parsed, compiler, chunk, vm, run>>

LexPeekToken ==
    /\ stage = "lex"
    /\ Len(returned) < MaxCalls
    /\ Len(peeks) < 2
    /\ LET t == peek_token(source, config, lexer)
       IN  /\ lexer' = t.lx
           /\ peeks' = Append(peeks, t.tok)
    /\ UNCHANGED <<stage, source, config, returned, tokens, parsed, compiler, chunk, vm, run>>

LexTokenizeAll ==
    /\ stage = "lex"
    /\ LET t == tokenize_all(source, config, lexer)
       IN  /\ lexer' = t.lx
           /\ tokens' = [called |-> TRUE,
                         fresh |-> (returned = <<>> /\ peeks = <<>>),
                         toks |-> t.toks]
    /\ stage' = "lexed"
    /\ UNCHANGED <<source, config, returned, peeks, parsed, compiler, chunk, vm, run>>

LexNext == LexNextToken \/ LexPeekToken \/ LexTokenizeAll

LexSpec == LexInit /\ [][LexNext]_vars

(***************************************************************************)
(* Claims about the Lexer.                                                 *)
(***************************************************************************)
\* The Lexer fields and the tokens returned after n next_token() calls and no peek.
RECURSIVE IterNext(_, _, _, _, _)
IterNext(src, cfg, L, n, toks) ==
    IF n = 0 THEN [lx |-> L, toks |-> toks]
    ELSE LET t == next_token(src, cfg, L)
         IN  IterNext(src, cfg, t.lx, n - 1, Append(toks, t.tok))

\* The (message, span) entries of the ERROR tokens of a token sequence, in order.
ErrorEntries(toks) ==
    LET IsError(t) == t.type = "ERROR"
        errs == SelectSeq(toks, IsError)
    IN  [i \in 1..Len(errs) |-> [message |-> errs[i].value, span |-> errs[i].span]]

\* C2: tokenize_all() on a fresh Lexer returns a non-empty sequence whose last
\* token is EOF_TOKEN and in which no other token is EOF_TOKEN.
C2_TokenizeAllEndsWithOneEOF ==
    (tokens.called /\ tokens.fresh) =>
        /\ Len(tokens.toks) > 0
        /\ tokens.toks[Len(tokens.toks)].type = "EOF_TOKEN"
        /\ \A i \in 1..(Len(tokens.toks) - 1) : tokens.toks[i].type # "EOF_TOKEN"

\* C6: with peek_token() calls interleaved, next_token() returns the same tokens as
\* with no peek at all; every peek returns the token the following next_token()
\* returns, repeated peeks agree, and the error list is the one the peek-free
\* Lexer has once it has produced the same tokens (nothing is recorded twice).
C6_PeekDoesNotDisturb ==
    stage = "lex" =>
        LET ref == IterNext(source, config, NewLexer, Len(returned), <<>>)
            nxt == next_token(source, config, ref.lx)
        IN  /\ returned = ref.toks
            /\ \A i \in 1..Len(peeks) : peeks[i] = nxt.tok
            /\ lexer.errors_ = IF peeks = <<>> THEN ref.lx.errors_ ELSE nxt.lx.errors_
            /\ lexer.current_pos_ = IF peeks = <<>> THEN ref.lx.current_pos_
                                    ELSE nxt.lx.current_pos_

\* C6 witness: two peeks were made after a token was consumed, on a source whose
\* peeked token is an ERROR token.
C6_Witness ==
    /\ stage = "lex"
    /\ Len(returned) >= 1
    /\ Len(peeks) = 2
    /\ peeks[1].type = "ERROR"

\* C7: the entries of the Lexer error list are exactly the ERROR tokens handed to
\* the caller (returned by next_token(), pending in the lookahead cache, or in the
\* vector of tokenize_all()), same message, same span, same order.
C7_ErrorsMatchErrorTokens ==
    /\ stage = "lex" =>
          lexer.errors_ = ErrorEntries(returned \o lexer.peeked_token_)
    /\ (tokens.called /\ tokens.fresh) =>
          lexer.errors_ = ErrorEntries(tokens.toks)

\* The tokens the Lexer has produced so far, in order: those next_token() returned,
\* the vector of tokenize_all(), and the token in the lookahead cache.
Produced == returned \o tokens.toks \o lexer.peeked_token_

\* The spans lie in the source, each token begins where the one before it ended
\* or later, and every character the Lexer has read that lies in no span is
\* white space.
SpansInOrder(toks) ==
    /\ \A i \in 1..Len(toks) :
          /\ 0 <= toks[i].span.start.offset
          /\ toks[i].span.start.offset <= toks[i].span.end.offset
          /\ toks[i].span.end.offset <= Len(source)
    /\ \A i \in 1..(Len(toks) - 1) :
          toks[i].span.end.offset <= toks[i + 1].span.start.offset
InSomeSpan(toks, k) ==
    \E i \in 1..Len(toks) : toks[i].span.start.offset < k /\ k <= toks[i].span.end.offset
SpansCover(toks) ==
    \A k \in 1..lexer.current_pos_ : is_whitespace(source[k]) \/ InSomeSpan(toks, k)

\* The concatenation of the source substrings [start.offset, end.offset) of the
\* tokens, and the source without the white space that lies in no span.
RECURSIVE SpanText(_, _)
SpanText(toks, i) ==
    IF i > Len(toks) THEN <<>>
    ELSE SubSeq(source, toks[i].span.start.offset + 1, toks[i].span.end.offset)
            \o SpanText(toks, i + 1)
RECURSIVE Content(_, _)
Content(toks, k) ==
    IF k > lexer.current_pos_ THEN <<>>
    ELSE (IF is_whitespace(source[k]) /\ ~InSomeSpan(toks, k) THEN <<>> ELSE <<source[k]>>)
            \o Content(toks, k + 1)

AfterSkippedComment(toks, k) ==
    \E j \in 1..k :
        /\ source[j] = "/"
        /\ j < Len(source)
        /\ source[j + 1] \in {"/", "*"}
        /\ ~InSomeSpan(toks, j)

NextUnread(L) ==
    IF L.peeked_token_ # <<>> THEN L.peeked_token_[1].span.start.offset
    ELSE L.current_pos_

\* The Lexer is at an opening quote that no quote and no backslash follows.
AtUnterminatedString(L) ==
    /\ L.peeked_token_ = <<>>
    /\ L.current_pos_ < Len(source)
    /\ source[L.current_pos_ + 1] = "\""
    /\ \A j \in (L.current_pos_ + 2)..Len(source) : source[j] \notin {"\"", "\\"}

\* What a step of next_token(), from the Lexer fields L to M with the token t
\* returned, satisfies when input remained: the caller is given at least one
\* more character, the Lexer does not move back, and a call that finds the cache
\* empty moves the Lexer forward; at an unterminated string it returns an ERROR
\* token that starts at the quote and records one more error.
NextTokenConsumes(L, M, t) ==
    /\ M.current_pos_ >= L.current_pos_
    /\ M.current_pos_ <= Len(source)
    /\ NextUnread(L) < Len(source) =>
          /\ NextUnread(M) > NextUnread(L)
          /\ L.peeked_token_ = <<>> => M.current_pos_ > L.current_pos_
    /\ AtUnterminatedString(L) =>
          /\ t.type = "ERROR"
          /\ t.value = <<"Unterminated string literal">>
          /\ t.span.start.offset = L.current_pos_
          /\ M.current_pos_ = Len(source)
          /\ M.errors_ # <<>>
          /\ Len(M.errors_) = Len(L.errors_) + 1

\* C16: every next_token() call made while input remains consumes at least one
\* character, an unterminated string literal gives an ERROR token and a
\* non-empty error list, and tokenize_all() ends with the input read and no more
\* tokens than the source has characters, each token other than EOF_TOKEN
\* holding at least one character.
C16_LexingTerminates ==
    [][/\ (stage = "lex" /\ returned' # returned) =>
              NextTokenConsumes(lexer, lexer', returned'[Len(returned')])
       /\ (stage = "lex" /\ stage' = "lexed") =>
              /\ lexer_at_end(source, lexer')
              /\ Len(tokens'.toks) <= Len(source)
              /\ \A i \in 1..Len(tokens'.toks) :
                    tokens'.toks[i].type # "EOF_TOKEN" =>
                        tokens'.toks[i].span.end.offset > tokens'.toks[i].span.start.offset
              /\ (AtUnterminatedString(lexer) /\ tokens'.toks # <<>>) =>
                    /\ tokens'.toks[1].type = "ERROR"
                    /\ lexer'.errors_ # <<>>]_vars

\* C16 witness: after a token, next_token() returned the ERROR token of an
\* unterminated string literal that runs to the end of the source, and the
\* error list holds it.
C16_Witness ==
    /\ stage = "lex"
    /\ Len(returned) = 2
    /\ returned[1].type = "IDENTIFIER"
    /\ returned[2].type = "ERROR"
    /\ returned[2].value = <<"Unterminated string literal">>
    /\ returned[2].span.end.offset = Len(source)
    /\ Len(source) = MaxSrcLen
    /\ lexer.errors_ # <<>>

(***************************************************************************)
(* The comment specification: the Lexer specification on sources made of   *)
(* the characters of block comments, long enough to hold a closed comment  *)
(* with a character before it.                                             *)
(***************************************************************************)
MaxCommentSrc == 5  \* characters in a source of the comment specification

CommentAlphabet == {"/", "*", "a", " "}

CommentInit ==
    /\ stage = "lex"
    /\ source \in SeqsUpTo(CommentAlphabet, MaxCommentSrc)
    /\ config \in LexConfigs
    /\ lexer = NewLexer
    /\ returned = <<>>
    /\ peeks = <<>>
    /\ tokens = NoTokens
    /\ parsed = NoParse
    /\ compiler = NoCompiler
    /\ chunk = NoChunk
    /\ vm = NoVM
    /\ run = NoRun

CommentSpec == CommentInit /\ [][LexNext]_vars

\* The token begins at the two characters that open a block comment.
OpensBlockComment(t) ==
    /\ t.span.start.offset + 2 <= Len(source)
    /\ source[t.span.start.offset + 1] = "/"
    /\ source[t.span.start.offset + 2] = "*"

\* The offsets just after a closing */ that follows the opening at offset o.
ClosesAfter(o) ==
    {j + 1 : j \in {j \in (o + 3)..(Len(source) - 1) : source[j] = "*" /\ source[j + 1] = "/"}}

\* C22: with emit_comments enabled, a block comment closed by */ lexes to one
\* MULTI_LINE_COMMENT token that ends just after the first */ and records no lexer
\* error, also when */ are the last two characters of the source; the ERROR token
\* of a block comment is produced only when no closing */ exists.
C22_ClosedBlockCommentIsOneToken ==
    config.emit_comments =>
        \A i \in 1..Len(Produced) :
            LET t == Produced[i]
                closes == ClosesAfter(t.span.start.offset)
            IN  /\ (OpensBlockComment(t) /\ closes # {}) =>
                      /\ t.type = "MULTI_LINE_COMMENT"
                      /\ \A e \in closes : t.span.end.offset <= e
                      /\ t.span.end.offset \in closes
                      /\ \A k \in 1..Len(lexer.errors_) :
                            lexer.errors_[k].span.start.offset # t.span.start.offset
                /\ (t.type = "ERROR" /\ t.value = <<"Unterminated multi-line comment">>) =>
                      (OpensBlockComment(t) /\ closes = {})

(***************************************************************************)
(* The pipeline specification: one source goes through tokenize_all(),     *)
(* parse(), compile() into an empty Chunk and run() on a new VM, the calls *)
(* of parse_source() and of the end-to-end tests of src/tests/vm_test.cpp. *)
(* Each stage is handed what the stage before returned, errors or not.     *)
(***************************************************************************)
MaxOps == 2         \* binary operators in the return expression of a pipeline source
MaxWords == 4       \* words in a source of the Parser specification

\* The characters of "package main; fn main() i32 { return " and of "; }".
Header == <<"p","a","c","k","a","g","e"," ","m","a","i","n",";"," ",
            "f","n"," ","m","a","i","n","(",")"," ","i","3","2"," ","{"," ",
            "r","e","t","u","r","n"," ">>
Footer == <<";"," ","}">>

Operands == {<<"2">>, <<"3">>, <<"4">>, <<"0","x","1","F">>}
Operators == {<<" ","+"," ">>, <<" ","*"," ">>}

\* The expressions  operand (operator operand)^k  for k <= n.
RECURSIVE Expressions(_)
Expressions(n) ==
    IF n = 0 THEN Operands
    ELSE Expressions(n - 1) \cup
         {e \o o \o x : e \in Expressions(n - 1), o \in Operators, x \in Operands}

PipeSources == {Header \o e \o Footer : e \in Expressions(MaxOps)}

\* Sources made of at most MaxWords words, well-formed or not.
ParserWords == {<<"f","n"," ">>, <<"f"," ">>, <<"(">>, <<"{">>, <<"}">>,
                <<"r","e","t","u","r","n"," ">>, <<"3">>, <<";">>, <<"&">>}

RECURSIVE Concat(_)
Concat(ws) == IF ws = <<>> THEN <<>> ELSE Head(ws) \o Concat(Tail(ws))

ParserSources == {Concat(ws) : ws \in SeqsUpTo(ParserWords, MaxWords)}

DefaultLexerConfig == [emit_comments |-> FALSE, emit_whitespace |-> FALSE]
DefaultVMConfig == [max_stack_size |-> 256, debug_mode |-> FALSE, ub |-> "carry_on"]

PipeStart(sources) ==
    /\ stage = "source"
    /\ source \in sources
    /\ config = DefaultLexerConfig
    /\ lexer = NewLexer
    /\ returned = <<>>
    /\ peeks = <<>>
    /\ tokens = NoTokens
    /\ parsed = NoParse
    /\ compiler = NoCompiler
    /\ chunk = NoChunk
    /\ vm = NoVM
    /\ run = NoRun

Init == PipeStart(PipeSources)

ParserInit == PipeStart(ParserSources)

\* Lexer lexer(source); tokens = lexer.tokenize_all();
PipeTokenize ==
    /\ stage = "source"
    /\ LET t == tokenize_all(source, config, lexer)
       IN  /\ lexer' = t.lx
           /\ tokens' = [called |-> TRUE, fresh |-> TRUE, toks |-> t.toks]
    /\ stage' = "tokens"
    /\ UNCHANGED <<source, config, returned, peeks, parsed, compiler, chunk, vm, run>>

\* Parser parser(tokens); program = parser.parse();
PipeParse ==
    /\ stage = "tokens"
    /\ LET r == parse(tokens.toks, NewParser)
       IN  parsed' = [done |-> TRUE, program |-> r.node, errors_ |-> r.ps.errors_,
                      current_token_ |-> r.ps.current_token_]
    /\ stage' = "ast"
    /\ UNCHANGED <<source, config, lexer, returned, peeks, tokens, compiler, chunk, vm, run>>

\* Compiler compiler; Chunk chunk; result = compiler.compile(*program, chunk);
PipeCompile ==
    /\ stage = "ast"
    /\ LET r == compile(parsed.program[1], EmptyChunk, "")
       IN  /\ chunk' = r.chunk
           /\ compiler' = [error_message_ |-> r.error_message_, calls |-> 1,
                           result |-> r.result, previous |-> compiler.result,
                           program |-> parsed.program,
                           chunk_before |-> <<EmptyChunk>>]
    /\ stage' = "chunk"
    /\ UNCHANGED <<source, config, lexer, returned, peeks, tokens, parsed, vm, run>>

\* VM vm; vm_result = vm.run(chunk);
PipeRun ==
    /\ stage = "chunk"
    /\ \E ub \in UBOutcomes :
          LET o == VM_run(chunk, [DefaultVMConfig EXCEPT !.ub = ub], NewVM)
          IN  /\ vm' = o.vm
              /\ run' = [state |-> "done", ip |-> o.ip, result |-> o.result]
    /\ stage' = "ran"
    /\ UNCHANGED <<source, config, lexer, returned, peeks, tokens, parsed, compiler, chunk>>

Next == PipeTokenize \/ PipeParse \/ PipeCompile \/ PipeRun

Spec == Init /\ [][Next]_vars

ParserSpec == ParserInit /\ [][Next]_vars

(***************************************************************************)
(* Claims about the pipeline and the Parser.                               *)
(***************************************************************************)
\* package main; fn main() i32 { return 2 + 3 * 4; }
ArithmeticSource == Header \o <<"2"," ","+"," ","3"," ","*"," ","4">> \o Footer

\* The sources whose return expression is one literal.
LiteralSources == {Header \o e \o Footer : e \in Operands}

\* The expression of the first statement of the first function of the Program.
ReturnExpression == parsed.program[1].declarations[1].body[1].statements[1].expression[1]

\* An expression without its spans: the text of a literal, or <<operator, left, right>>.
RECURSIVE Shape(_)
Shape(e) ==
    IF e.type = "BINARY_EXPRESSION"
    THEN <<e.operator, Shape(e.left), Shape(e.right)>>
    ELSE <<e.value>>

\* C1: lexing, parsing, compiling and running
\* `package main; fn main() i32 { return 2 + 3 * 4; }` gives no lexer error, no parser
\* error, Compiler result OK, VM result OK and Integer(14) on top of the stack.
C1_EndToEndArithmetic ==
    (stage = "ran" /\ source = ArithmeticSource) =>
        /\ lexer.errors_ = <<>>
        /\ parsed.errors_ = <<>>
        /\ compiler.result = "OK"
        /\ run.result = "OK"
        /\ vm.stack_ # <<>>
        /\ Top(vm) = Integer(14)

\* C3: parsing a return expression of integer literals joined by binary operators
\* records no parser error and yields a BinaryExpression; for `2 + 3 * 4` the tree is
\* BinaryExpression(+, 2, BinaryExpression(*, 3, 4)).
C3_BinaryExpressionTree ==
    (parsed.done /\ source \in PipeSources \ LiteralSources) =>
        /\ parsed.errors_ = <<>>
        /\ ReturnExpression.type = "BINARY_EXPRESSION"
        /\ source = ArithmeticSource =>
              Shape(ReturnExpression) = <<"+", <<<<"2">>>>, <<"*", <<<<"3">>>>, <<<<"4">>>>>>>>

SpanOrdered(span) == span.start.offset <= span.end.offset

\* The spans of an AST node and of the nodes below it; opt is <<>> or <<node>>.
RECURSIVE NodeSpans(_)
NodeSpans(opt) ==
    IF opt = <<>> THEN {}
    ELSE LET n == opt[1]
         IN  CASE n.type = "PROGRAM" ->
                     NodeSpans(n.package_declaration)
                         \cup UNION {NodeSpans(<<n.declarations[i]>>) :
                                        i \in 1..Len(n.declarations)}
               [] n.type = "FUNCTION_DECLARATION" ->
                     {n.span} \cup NodeSpans(n.return_type) \cup NodeSpans(n.body)
               [] n.type = "BLOCK_STATEMENT" ->
                     {n.span} \cup UNION {NodeSpans(<<n.statements[i]>>) :
                                             i \in 1..Len(n.statements)}
               [] n.type = "RETURN_STATEMENT" -> {n.span} \cup NodeSpans(n.expression)
               [] OTHER -> {n.span}

\* C8: every span of a token or of a Lexer error, and every span of a
\* PackageDeclaration, FunctionDeclaration, Type, BlockStatement, ReturnStatement or
\* IntegerLiteral the Parser built, has start.offset <= end.offset.
C8_SpansOrdered ==
    /\ \A i \in 1..Len(tokens.toks) : SpanOrdered(tokens.toks[i].span)
    /\ \A i \in 1..Len(lexer.errors_) : SpanOrdered(lexer.errors_[i].span)
    /\ \A span \in NodeSpans(parsed.program) : SpanOrdered(span)

\* C14: parse() has returned for the token sequence, with a Program that is not
\* null, and the token index, which only advance() moves and only forward, is not
\* above the number of tokens; each declaration took at least one token.
C14_ParseReturnsProgram ==
    stage \in {"ast", "chunk", "ran"} =>
        /\ parsed.done
        /\ parsed.program # <<>>
        /\ Len(parsed.program) = 1
        /\ parsed.current_token_ >= 0
        /\ parsed.current_token_ <= Len(tokens.toks)
        /\ Len(parsed.program[1].declarations) <= Len(tokens.toks)

\* C14 witness: parse() has returned for a sequence that holds an ERROR token and
\* no EOF token, with errors recorded, having read every token.
C14_Witness ==
    /\ stage = "ast"
    /\ Len(tokens.toks) = MaxWords
    /\ \E i \in 1..Len(tokens.toks) : tokens.toks[i].type = "ERROR"
    /\ \A i \in 1..Len(tokens.toks) : tokens.toks[i].type # "EOF_TOKEN"
    /\ parsed.errors_ # <<>>
    /\ parsed.current_token_ = Len(tokens.toks)
    /\ parsed.program[1].declarations # <<>>

\* The value an integer literal denotes: hexadecimal after 0x, binary after 0b,
\* octal after a leading 0, else decimal.
HexDigitValue(c) ==
    IF c \in DigitChars THEN DigitValue(c)
    ELSE CASE c \in {"a", "A"} -> 10 [] c \in {"b", "B"} -> 11 [] c \in {"c", "C"} -> 12
           [] c \in {"d", "D"} -> 13 [] c \in {"e", "E"} -> 14 [] c \in {"f", "F"} -> 15

RECURSIVE RadixValue(_, _, _, _)
RadixValue(text, i, radix, acc) ==
    IF i > Len(text) THEN acc
    ELSE RadixValue(text, i + 1, radix, acc * radix + HexDigitValue(text[i]))

LiteralValue(text) ==
    IF Len(text) >= 2 /\ text[1] = "0" /\ text[2] = "x" THEN RadixValue(text, 3, 16, 0)
    ELSE IF Len(text) >= 2 /\ text[1] = "0" /\ text[2] = "b" THEN RadixValue(text, 3, 2, 0)
    ELSE IF Len(text) >= 2 /\ text[1] = "0" THEN RadixValue(text, 2, 8, 0)
    ELSE RadixValue(text, 1, 10, 0)

\* The statements of the body of the Program handed to compile, when the Program
\* is one function with a body.
OneFunctionWithBody(program) ==
    /\ Len(program.declarations) = 1
    /\ program.declarations[1].type = "FUNCTION_DECLARATION"
    /\ program.declarations[1].body # <<>>

BodyOf(program) == program.declarations[1].body[1].statements

IsLiteralReturn(stmt) ==
    /\ stmt.type = "RETURN_STATEMENT"
    /\ stmt.expression # <<>>
    /\ stmt.expression[1].type = "INTEGER_LITERAL"

IsBareReturn(stmt) == stmt.type = "RETURN_STATEMENT" /\ stmt.expression = <<>>

\* [OP_CONSTANT, 0, OP_RETURN, OP_CONSTANT, 1, OP_RETURN, ...] for n statements.
ReturnsCode(n) ==
    [k \in 1..(3 * n) |-> CASE k % 3 = 1 -> OP_CONSTANT
                            [] k % 3 = 2 -> (k - 2) \div 3
                            [] k % 3 = 0 -> OP_RETURN]

\* C10: compiling, into an empty chunk, one function whose body is n statements, each
\* a return of an integer literal or a bare return, returns OK, writes the code
\* [OP_CONSTANT, i, OP_RETURN] for i = 0..n-1 and the constants Integer(value of
\* the i-th literal), or Nil for a bare return.
C10_ReturnsLowerToConstants ==
    (/\ compiler.calls > 0
     /\ compiler.chunk_before = <<EmptyChunk>>
     /\ OneFunctionWithBody(compiler.program[1])
     /\ \A i \in 1..Len(BodyOf(compiler.program[1])) :
           IsLiteralReturn(BodyOf(compiler.program[1])[i])
               \/ IsBareReturn(BodyOf(compiler.program[1])[i])) =>
        LET body == BodyOf(compiler.program[1])
        IN  /\ compiler.result = "OK"
            /\ chunk.code = ReturnsCode(Len(body))
            /\ chunk.constants =
                  [i \in 1..Len(body) |->
                      IF IsBareReturn(body[i]) THEN Nil
                      ELSE Integer(LiteralValue(body[i].expression[1].value))]

(***************************************************************************)
(* The recovery specification: the pipeline on sources that hold two       *)
(* function declarations, f with a body of arbitrary words and then g with *)
(* a well-formed body.                                                     *)
(***************************************************************************)
MaxBodyWords == 3   \* words in the body of the first function

BodyWords == {<<"r","e","t","u","r","n"," ">>, <<"3">>, <<";">>, <<"x"," ">>}

\* The bodies of g and the number of statements each holds.
WellFormedBodies == {<<>>, <<"r","e","t","u","r","n"," ","3",";">>,
                     <<"r","e","t","u","r","n"," ",";">>}
StatementsIn(body) == IF body = <<>> THEN 0 ELSE 1

\* "fn <name>() t { <body> } "
FunctionText(name, body) ==
    <<"f","n"," ">> \o name \o <<"(",")"," ","t"," ","{"," ">> \o body \o <<" ","}"," ">>

TwoFunctions(body1, body2) == FunctionText(<<"f">>, body1) \o FunctionText(<<"g">>, body2)

RecoverySources ==
    {TwoFunctions(Concat(ws), b) : ws \in SeqsUpTo(BodyWords, MaxBodyWords),
                                   b \in WellFormedBodies}

RecoveryInit == PipeStart(RecoverySources)

RecoverySpec == RecoveryInit /\ [][Next]_vars

\* C19: whatever the body of f holds, the Program has the two declarations f and
\* g, and the body of g holds the statements written in it: no token of g was
\* consumed as part of the block of f.
C19_ErrorStaysInBlock ==
    (stage \in {"ast", "chunk", "ran"} /\ source \in RecoverySources) =>
        /\ Len(parsed.program[1].declarations) = 2
        /\ parsed.program[1].declarations[1].function_name = <<"f">>
        /\ parsed.program[1].declarations[2].function_name = <<"g">>
        /\ \A ws \in SeqsUpTo(BodyWords, MaxBodyWords), b \in WellFormedBodies :
              source = TwoFunctions(Concat(ws), b) =>
                  /\ parsed.program[1].declarations[2].body # <<>>
                  /\ Len(parsed.program[1].declarations[2].body[1].statements)
                        = StatementsIn(b)
                  /\ Len(parsed.program[1].declarations[1].body[1].statements)
                        <= Len(ws)

(***************************************************************************)
(* The top-level specification: the pipeline on sources that are a few     *)
(* top-level items in a row, function declarations and stray tokens.       *)
(***************************************************************************)
MaxItems == 3       \* top-level items in a source

TopLevelItems ==
    {FunctionText(<<"f">>, <<"r","e","t","u","r","n"," ","3",";">>),
     FunctionText(<<"g">>, <<>>),
     FunctionText(<<"h">>, <<"r","e","t","u","r","n"," ",";">>),
     <<"p","a","c","k","a","g","e"," ","m",";"," ">>,
     <<"f","n"," ">>, <<"3"," ">>, <<"x"," ">>, <<";">>, <<"}">>}

TopLevelSources == {Concat(items) : items \in SeqsUpTo(TopLevelItems, MaxItems)}

TopLevelInit == PipeStart(TopLevelSources)

TopLevelSpec == TopLevelInit /\ [][Next]_vars

\* The messages of a list of errors, in order.
Messages(errors) == [i \in 1..Len(errors) |-> errors[i].message]

\* parse() returned with a current token that is not the end of the tokens: the
\* loop of parse_program was left at a token that is not `fn`.
StoppedAtTopLevel ==
    /\ stage \in {"ast", "chunk", "ran"}
    /\ ~Parser_at_end(tokens.toks, [current_token_ |-> parsed.current_token_])

\* C26: when the top-level loop meets a token that is neither `fn` nor the end of the
\* tokens, it records one error at that token and stops: the token and those after
\* it are not consumed, and the errors before that one and the declarations of
\* the Program are those of parsing the tokens before it alone.
C26_TopLevelErrorStops ==
    StoppedAtTopLevel =>
        LET k == parsed.current_token_
            before == parse(SubSeq(tokens.toks, 1, k), NewParser)
        IN  /\ tokens.toks[k + 1].type # "FN"
            /\ before.ps.current_token_ = k
            /\ Len(parsed.errors_) = Len(before.ps.errors_) + 1
            /\ parsed.errors_[Len(parsed.errors_)] =
                  [message |-> "Expected function declaration",
                   span |-> tokens.toks[k + 1].span]
            /\ Messages(SubSeq(parsed.errors_, 1, Len(parsed.errors_) - 1))
                  = Messages(before.ps.errors_)
            /\ \A i \in 1..(Len(parsed.errors_) - 1) :
                  parsed.errors_[i].message # "Expected function declaration"
            /\ parsed.program[1].declarations = before.node[1].declarations

\* C26 witness: the loop stopped at a stray token after one declaration, with a
\* function declaration after the token that is not in the Program.
C26_Witness ==
    /\ StoppedAtTopLevel
    /\ Len(parsed.program[1].declarations) = 1
    /\ parsed.current_token_ + 2 <= Len(tokens.toks)
    /\ tokens.toks[parsed.current_token_ + 1].type = "INTEGER_LITERAL"
    /\ tokens.toks[parsed.current_token_ + 2].type = "FN"

\* C29: when a program parsed without error has compiled with OK and run() on a new VM
\* has returned OK, the stack is not empty and its top is the value of the first
\* return statement of the function, Nil for a bare return; a function whose
\* body holds no statement included.
C29_TopIsReturnValue ==
    (/\ stage = "ran"
     /\ parsed.errors_ = <<>>
     /\ compiler.result = "OK"
     /\ run.result = "OK") =>
        /\ vm.stack_ # <<>>
        /\ BodyOf(parsed.program[1]) # <<>> =>
              Top(vm) = IF IsBareReturn(BodyOf(parsed.program[1])[1]) THEN Nil
                        ELSE Integer(LiteralValue(
                                 BodyOf(parsed.program[1])[1].expression[1].value))

\* What holds: the same for the functions whose body holds a statement.
TopIsReturnValueOfFirstStatement ==
    (/\ stage = "ran"
     /\ parsed.errors_ = <<>>
     /\ compiler.result = "OK"
     /\ run.result = "OK"
     /\ BodyOf(parsed.program[1]) # <<>>) =>
        /\ vm.stack_ # <<>>
        /\ Top(vm) = IF IsBareReturn(BodyOf(parsed.program[1])[1]) THEN Nil
                     ELSE Integer(LiteralValue(
                              BodyOf(parsed.program[1])[1].expression[1].value))

(***************************************************************************)
(* The synchronize specification: a Parser over an arbitrary token vector, *)
(* at an arbitrary token, calls synchronize().                             *)
(***************************************************************************)
MaxSyncTokens == 4  \* tokens in the vector
MaxSyncCalls == 2   \* synchronize() calls made on one Parser

SyncTypes == {"SEMICOLON", "FN", "RETURN", "IDENTIFIER", "RIGHT_BRACE", "EOF_TOKEN"}

SyncTokens ==
    {[i \in 1..Len(types) |-> Token(types[i], <<>>, DefaultSpan)] :
        types \in SeqsUpTo(SyncTypes, MaxSyncTokens)}

\* parsed: the Parser fields, and history: before, current_token_ when the last
\* synchronize() was called; calls, the number of calls.
SyncInit ==
    /\ stage = "sync"
    /\ source = <<>>
    /\ config = DefaultLexerConfig
    /\ lexer = NewLexer
    /\ returned = <<>>
    /\ peeks = <<>>
    /\ \E toks \in SyncTokens : tokens = [called |-> FALSE, fresh |-> FALSE, toks |-> toks]
    /\ \E k \in 0..MaxSyncTokens :
          /\ k <= Len(tokens.toks)
          /\ parsed = [current_token_ |-> k, errors_ |-> <<>>, before |-> k, calls |-> 0]
    /\ compiler = NoCompiler
    /\ chunk = NoChunk
    /\ vm = NoVM
    /\ run = NoRun

SyncCall ==
    /\ stage = "sync"
    /\ parsed.calls < MaxSyncCalls
    /\ LET P == synchronize(tokens.toks, [current_token_ |-> parsed.current_token_,
                                          errors_ |-> parsed.errors_])
       IN  parsed' = [current_token_ |-> P.current_token_, errors_ |-> P.errors_,
                      before |-> parsed.current_token_, calls |-> parsed.calls + 1]
    /\ UNCHANGED <<stage, source, config, lexer, returned, peeks, tokens, compiler,
                   chunk, vm, run>>

SyncNext == SyncCall

SyncSpec == SyncInit /\ [][SyncNext]_vars

\* Token index k (from 0) is the end of the tokens: past the vector or at EOF_TOKEN.
EndOfTokens(k) == k >= Len(tokens.toks) \/ tokens.toks[k + 1].type = "EOF_TOKEN"

\* The indices after `from` where synchronize() has to stop.
StopPoints(from) ==
    {k \in (from + 1)..Len(tokens.toks) :
        EndOfTokens(k) \/ tokens.toks[k + 1].type \in {"SEMICOLON", "FN", "RETURN"}}

Least(S) == CHOOSE k \in S : \A j \in S : k <= j

\* C25: synchronize() called when not at the end advances past the current token,
\* whatever it is, and then on to the first token that is a `;`, a `fn`, a
\* `return` or the end of the tokens; it consumes that token if it is a `;` and
\* nothing further.  Called at the end it consumes nothing.  It records no error.
C25_SynchronizeStops ==
    (stage = "sync" /\ parsed.calls > 0) =>
        /\ parsed.errors_ = <<>>
        /\ IF EndOfTokens(parsed.before)
           THEN parsed.current_token_ = parsed.before
           ELSE LET stop == Least(StopPoints(parsed.before))
                IN  /\ parsed.current_token_ > parsed.before
                    /\ parsed.current_token_ =
                          IF ~EndOfTokens(stop) /\ tokens.toks[stop + 1].type = "SEMICOLON"
                          THEN stop + 1 ELSE stop

\* C25 witness: called at a `fn`, synchronize() passed it and one more token and
\* stopped just after the `;` that followed, with a token left.
C25_Witness ==
    /\ stage = "sync"
    /\ parsed.calls = 1
    /\ Len(tokens.toks) = MaxSyncTokens
    /\ parsed.before < Len(tokens.toks)
    /\ tokens.toks[parsed.before + 1].type = "FN"
    /\ parsed.current_token_ = parsed.before + 3
    /\ tokens.toks[parsed.current_token_].type = "SEMICOLON"
    /\ parsed.current_token_ < Len(tokens.toks)

(***************************************************************************)
(* The VM specification: one VM with some max_stack_size runs chunks one   *)
(* after the other, with or without reset() in between.  A run advances    *)
(* one iteration of its loop at a time.                                    *)
(***************************************************************************)
MaxCodeLen == 4     \* longest code of a chunk the VM specification runs
MaxStackSize == 2   \* largest max_stack_size
MaxRuns == 2        \* run() calls made on one VM

\* The bytes of a chunk: OP_CONSTANT, OP_RETURN and OP_ADD, which are also the
\* constant indices 0, 1 and (out of range) 2.
VMBytes == {OP_CONSTANT, OP_RETURN, OP_ADD}

VMChunks == {[code |-> c, constants |-> <<Integer(1), Nil>>] :
                c \in SeqsUpTo(VMBytes, MaxCodeLen)}

\* No chunk of VMChunks has an undefined operation, so one build stands for all.
VMConfigs == [max_stack_size : 1..MaxStackSize, debug_mode : {FALSE}, ub : {"carry_on"}]

\* run: state idle / running / done / killed, the instruction pointer, the
\* VMResult, the number of run() calls so far, and history: full, an instruction
\* of this run pushed on a full stack; later, an instruction of this run was
\* executed after that; steps, the instructions this run fetched and executed; last_ip, the
\* instruction pointer before the last of them; oob, this run read code past its
\* last byte; clean, the VM was new or reset() when this run began; discarded,
\* a reset() since the last run emptied a stack that held values; resets, the
\* reset() calls since the last run.
NewRun == [state |-> "idle", ip |-> 0, result |-> "NONE", runs |-> 0,
           full |-> FALSE, later |-> FALSE, steps |-> 0, last_ip |-> 0, oob |-> FALSE,
           clean |-> TRUE, discarded |-> FALSE, resets |-> 0]

VMInit ==
    /\ stage = "vm"
    /\ source = <<>>
    /\ config \in VMConfigs
    /\ lexer = NewLexer
    /\ returned = <<>>
    /\ peeks = <<>>
    /\ tokens = NoTokens
    /\ parsed = NoParse
    /\ compiler = NoCompiler
    /\ chunk = NoChunk
    /\ vm = NewVM
    /\ run = NewRun

\* vm.run(c), up to the first test of the while loop.
VMBeginRun ==
    /\ stage = "vm"
    /\ run.state \in {"idle", "done"}
    /\ run.runs < MaxRuns
    /\ \E c \in VMChunks :
          /\ chunk' = c
          /\ run' = [run EXCEPT !.state = IF c.code = <<>> THEN "done" ELSE "running",
                                !.ip = 0,
                                !.result = IF c.code = <<>> THEN "OK" ELSE "NONE",
                                !.runs = @ + 1,
                                !.resets = 0,
                                !.full = FALSE,
                                !.later = FALSE,
                                !.steps = 0,
                                !.last_ip = 0,
                                !.oob = FALSE,
                                !.clean = (run.state = "idle")]
    /\ UNCHANGED <<stage, source, config, lexer, returned, peeks, tokens, parsed,
                   compiler, vm>>

\* One iteration of the while loop of run, and the loop test that follows.
VMStep ==
    /\ stage \in {"vm", "run"}
    /\ run.state = "running"
    /\ LET o == Step(chunk, config, vm, run.ip)
       IN  /\ vm' = o.vm
           /\ run' = [run EXCEPT !.state = CASE o.result = "running" -> "running"
                                             [] o.result = "KILLED" -> "killed"
                                             [] OTHER -> "done",
                                 !.ip = o.ip,
                                 !.result = IF o.result = "running" THEN "NONE"
                                            ELSE o.result,
                                 !.full = @ \/ o.full,
                                 !.later = @ \/ run.full,
                                 !.steps = IF o.ip = run.ip THEN @ ELSE @ + 1,
                                 !.last_ip = IF o.ip = run.ip THEN @ ELSE run.ip,
                                 !.oob = @ \/ o.oob]
    /\ UNCHANGED <<stage, source, config, lexer, returned, peeks, tokens, parsed,
                   compiler, chunk>>

\* vm.reset() between two runs, once or twice.
VMReset ==
    /\ stage = "vm"
    /\ run.state \in {"idle", "done"}
    /\ run.resets < 2
    /\ vm' = reset(vm)
    /\ run' = [run EXCEPT !.state = "idle",
                          !.discarded = IF run.state = "done" THEN vm.stack_ # <<>> ELSE @,
                          !.resets = @ + 1]
    /\ UNCHANGED <<stage, source, config, lexer, returned, peeks, tokens, parsed,
                   compiler, chunk>>

VMNext == VMBeginRun \/ VMStep \/ VMReset

VMSpec == VMInit /\ [][VMNext]_vars

(***************************************************************************)
(* The run specification: one run() on a new VM, in debug mode or not, of  *)
(* a chunk that pushes constants and applies a binary opcode, or of a      *)
(* chunk of arbitrary bytes.                                               *)
(***************************************************************************)
MaxOperands == 2    \* constants pushed before the binary opcode
MaxBytes == 4       \* longest code of arbitrary bytes

ArithPool == <<Integer(7), Integer(2), Integer(0), Integer(-7), Integer(-1),
               Integer(INT_MAX), Integer(INT_MIN), Nil, Boolean(TRUE)>>

BinaryOps == {OP_ADD, OP_SUBTRACT, OP_MULTIPLY, OP_DIVIDE, OP_EQUAL, OP_NOT_EQUAL,
              OP_LESS, OP_LESS_EQUAL, OP_GREATER, OP_GREATER_EQUAL}

\* OP_CONSTANT i for every index i of the sequence.
RECURSIVE PushCode(_)
PushCode(indices) ==
    IF indices = <<>> THEN <<>>
    ELSE <<OP_CONSTANT, Head(indices)>> \o PushCode(Tail(indices))

ArithChunks ==
    {[code |-> PushCode(indices) \o <<op>>, constants |-> ArithPool] :
        indices \in SeqsUpTo(0..(Len(ArithPool) - 1), MaxOperands), op \in BinaryOps}

\* A byte that is no opcode.
UnknownByte == OP_GREATER_EQUAL + 1

ByteChunks ==
    {[code |-> c, constants |-> <<Integer(1), Nil>>] :
        c \in SeqsUpTo({OP_CONSTANT, OP_RETURN, OP_ADD, UnknownByte}, MaxBytes)}

RunConfigs == [max_stack_size : {256}, debug_mode : BOOLEAN, ub : UBOutcomes]

RunInit ==
    /\ stage = "run"
    /\ source = <<>>
    /\ config \in RunConfigs
    /\ lexer = NewLexer
    /\ returned = <<>>
    /\ peeks = <<>>
    /\ tokens = NoTokens
    /\ parsed = NoParse
    /\ compiler = NoCompiler
    /\ chunk = NoChunk
    /\ vm = NewVM
    /\ run = NewRun

\* VM vm(config); vm.run(c), up to the first test of the while loop.
RunBegin ==
    /\ stage = "run"
    /\ run.state = "idle"
    /\ \E c \in ArithChunks \cup ByteChunks :
          /\ chunk' = c
          /\ run' = [run EXCEPT !.state = IF c.code = <<>> THEN "done" ELSE "running",
                                !.result = IF c.code = <<>> THEN "OK" ELSE "NONE",
                                !.runs = 1]
    /\ UNCHANGED <<stage, source, config, lexer, returned, peeks, tokens, parsed,
                   compiler, vm>>

RunNext == RunBegin \/ VMStep

RunSpec == RunInit /\ [][RunNext]_vars

(***************************************************************************)
(* Claims about the VM.                                                    *)
(***************************************************************************)
\* C4: once an instruction of a run has pushed on a full stack, the run has ended
\* with RUNTIME_ERROR and the stack-overflow message, and no later instruction
\* of the chunk has been executed.
C4_OverflowEndsRun ==
    (stage = "vm" /\ run.full) =>
        /\ run.state = "done"
        /\ run.result = "RUNTIME_ERROR"
        /\ vm.error_message_ = "Stack overflow"
        /\ ~run.later

\* C5 as stated: a run that follows another run on the same VM, with no reset()
\* in between, ends with the stack and the result that the same chunk gives on
\* a newly constructed VM.
C5_RunResetsStack ==
    (stage = "vm" /\ run.state = "done" /\ run.runs >= 2 /\ ~run.clean) =>
        LET fresh == VM_run(chunk, config, NewVM)
        IN  /\ vm.stack_ = fresh.vm.stack_
            /\ run.result = fresh.result

\* C5 amended: a run that begins on a VM that is new or was reset() after its previous
\* run ends with the stack, the result and the error message that the same chunk
\* gives on a newly constructed VM.
C5_RunAfterResetIsFresh ==
    (stage = "vm" /\ run.state = "done" /\ run.clean) =>
        LET fresh == VM_run(chunk, config, NewVM)
        IN  /\ vm = fresh.vm
            /\ run.result = fresh.result

\* C5 witness: a second run has ended on a VM whose reset() discarded the values the
\* first run had left on the stack, and it left values of its own.
C5_Witness ==
    /\ stage = "vm"
    /\ run.state = "done"
    /\ run.runs = 2
    /\ run.clean
    /\ run.discarded
    /\ vm.stack_ # <<>>

\* The operands an ArithChunks chunk pushes before its opcode, the opcode, and
\* the value a op b where it is an int32_t.
PushedOperands(ch) ==
    [i \in 1..((Len(ch.code) - 1) \div 2) |-> ch.constants[ch.code[2 * i] + 1]]
AppliedOp(ch) == ch.code[Len(ch.code)]
IntegerOnlyOps == BinaryOps \ {OP_EQUAL, OP_NOT_EQUAL}
Representable(op, a, b) ==
    CASE op = OP_ADD -> ~AddOverflows(a, b)
      [] op = OP_SUBTRACT -> ~SubOverflows(a, b)
      [] op = OP_MULTIPLY -> ~Multiply(a, b).ovf
      [] op = OP_DIVIDE -> ~(a = INT_MIN /\ b = -1)
      [] OTHER -> TRUE
Exact(op, a, b) ==
    CASE op = OP_ADD -> Integer(a + b)
      [] op = OP_SUBTRACT -> Integer(a - b)
      [] op = OP_MULTIPLY -> Integer(Multiply(a, b).v)
      [] op = OP_DIVIDE -> Integer(TruncDiv(a, b))
      [] op = OP_LESS -> Boolean(a < b)
      [] op = OP_LESS_EQUAL -> Boolean(a <= b)
      [] op = OP_GREATER -> Boolean(a > b)
      [] op = OP_GREATER_EQUAL -> Boolean(a >= b)

\* A run of a chunk of ArithChunks with an integer-only opcode has ended or the
\* process was killed in it.
ArithRunOver ==
    /\ stage = "run"
    /\ run.state \in {"done", "killed"}
    /\ chunk.constants = ArithPool
    /\ chunk.code # <<>>
    /\ AppliedOp(chunk) \in IntegerOnlyOps

\* C11: an integer-only binary opcode executed on the values a (below) and b
\* (top), both Integer and b # 0 for OP_DIVIDE, leaves the single value a op b
\* in their place and the run ends with OK; with fewer than two values on the
\* stack, or a value that is no Integer, run returns RUNTIME_ERROR with a
\* non-empty message.
C11_BinaryOpcodes ==
    ArithRunOver =>
        LET s == PushedOperands(chunk)
            op == AppliedOp(chunk)
        IN  IF Len(s) = 2 /\ is_integer(s[1]) /\ is_integer(s[2])
               /\ ~(op = OP_DIVIDE /\ s[2].v = 0)
            THEN /\ run.state = "done"
                 /\ run.result = "OK"
                 /\ Representable(op, s[1].v, s[2].v)
                 /\ vm.stack_ = <<Exact(op, s[1].v, s[2].v)>>
            ELSE /\ run.state = "done"
                 /\ run.result = "RUNTIME_ERROR"
                 /\ vm.error_message_ # ""

\* C12: reset() after any runs, ended with OK or RUNTIME_ERROR, leaves the stack
\* and the error message empty, as in a newly constructed VM; every run made
\* then ends as on a newly constructed VM with the same configuration; and a
\* second reset() changes nothing.
C12_ResetIdempotent ==
    stage = "vm" =>
        /\ reset(reset(vm)) = reset(vm)
        /\ (run.state = "idle" /\ run.resets >= 1) =>
              /\ vm.stack_ = <<>>
              /\ vm.error_message_ = ""
              /\ vm = NewVM
              /\ \A c \in VMChunks : VM_run(c, config, vm) = VM_run(c, config, NewVM)

\* C12 witness: reset() was called twice after a second run that returned
\* RUNTIME_ERROR, and the first of them emptied a stack that held values.
C12_Witness ==
    /\ stage = "vm"
    /\ run.state = "idle"
    /\ run.runs = 2
    /\ run.resets = 2
    /\ run.result = "RUNTIME_ERROR"
    /\ run.discarded

\* C13: a run in debug mode ends with the result, the stack and the error
\* message of the run of the same chunk without debug mode, and reads no byte
\* past the end of the code, which the run without debug mode never does.
C13_DebugModeChangesNothing ==
    (stage = "run" /\ config.debug_mode /\ run.state \in {"done", "killed"}) =>
        LET plain == VM_run(chunk, [config EXCEPT !.debug_mode = FALSE], NewVM)
        IN  /\ run.result = plain.result
            /\ vm = plain.vm
            /\ ~run.oob
            /\ ~plain.oob

\* A run of a chunk that pushes two Integers, the second 0, and applies
\* OP_DIVIDE has ended or the process was killed in it.
DivisionByZeroOver ==
    /\ stage = "run"
    /\ run.state \in {"done", "killed"}
    /\ chunk.constants = ArithPool
    /\ chunk.code # <<>>
    /\ AppliedOp(chunk) = OP_DIVIDE
    /\ Len(PushedOperands(chunk)) = 2
    /\ is_integer(PushedOperands(chunk)[1])
    /\ PushedOperands(chunk)[2] = Integer(0)

\* C17: OP_DIVIDE on two Integers a and b = 0 makes run return RUNTIME_ERROR with
\* a non-empty message; the division is not performed, whatever the build does
\* with a division by zero, and no result is pushed: both operands are gone and
\* the stack holds nothing.
C17_DivisionByZero ==
    DivisionByZeroOver =>
        /\ run.state = "done"
        /\ run.result = "RUNTIME_ERROR"
        /\ vm.error_message_ = "Division by zero"
        /\ vm.error_message_ # ""
        /\ vm.stack_ = <<>>

\* C17 witness: the run of INT_MIN / 0 has ended in the build that traps undefined
\* operations.
C17_Witness ==
    /\ DivisionByZeroOver
    /\ PushedOperands(chunk)[1] = Integer(INT_MIN)
    /\ config.ub = "trap"
    /\ run.result = "RUNTIME_ERROR"

\* The byte the last executed instruction of the run was fetched from.
LastOpcode == chunk.code[run.last_ip + 1]

\* What holds of every run, whatever its chunk: each executed instruction moved
\* the instruction pointer forward and inside the code, no more instructions
\* were executed than the code has bytes, the loop goes on only while bytes
\* remain, a byte that is no opcode or an OP_CONSTANT with no operand byte ended
\* the run with RUNTIME_ERROR, and a run that returned OK ended at an OP_RETURN
\* or at the end of the code.
RunIsBounded ==
    /\ run.steps >= 1 => run.last_ip < run.ip
    /\ run.ip <= Len(chunk.code)
    /\ run.steps <= run.ip
    /\ run.steps <= Len(chunk.code)
    /\ run.state = "running" => run.ip < Len(chunk.code)
    /\ (run.steps >= 1 /\ LastOpcode > OP_GREATER_EQUAL) =>
          /\ run.state = "done"
          /\ run.result = "RUNTIME_ERROR"
          /\ vm.error_message_ # ""
    /\ (run.steps >= 1 /\ LastOpcode = OP_CONSTANT /\ run.last_ip + 1 = Len(chunk.code)) =>
          /\ run.state = "done"
          /\ run.result = "RUNTIME_ERROR"
          /\ vm.error_message_ = "Missing constant index after OP_CONSTANT"
    /\ (run.steps >= 1 /\ run.state = "done" /\ run.result = "OK") =>
          LastOpcode = OP_RETURN \/ run.ip = Len(chunk.code)

C23_ReturnEndsRun ==
    [][/\ (stage = "vm" /\ run.state = "running" /\ chunk.code[run.ip + 1] = OP_RETURN) =>
            /\ run'.state = "done"
            /\ run'.ip = run.ip + 1
            /\ vm'.stack_ = vm.stack_
            /\ IF vm.stack_ # <<>>
               THEN /\ run'.result = "OK"
                    /\ vm'.error_message_ = vm.error_message_
               ELSE /\ run'.result = "RUNTIME_ERROR"
                    /\ vm'.error_message_ # ""
       /\ (stage = "vm" /\ run.state = "done" /\ run'.runs = run.runs) =>
            /\ run'.ip = run.ip
            /\ run'.steps = run.steps
            /\ vm'.stack_ \in {vm.stack_, <<>>}]_vars

\* C23 witness: a second run ended with OK at an OP_RETURN that is followed by
\* another instruction, on a stack that holds two values.
C23_Witness ==
    /\ stage = "vm"
    /\ run.state = "done"
    /\ run.result = "OK"
    /\ run.runs = 2
    /\ run.steps > 0
    /\ chunk.code[run.last_ip + 1] = OP_RETURN
    /\ run.ip = run.last_ip + 1
    /\ run.ip < Len(chunk.code)
    /\ Len(vm.stack_) = 2

\* C23 witness, empty stack: OP_RETURN was the first instruction of a run on an empty stack.
C23_WitnessEmpty ==
    /\ stage = "vm"
    /\ run.state = "done"
    /\ run.result = "RUNTIME_ERROR"
    /\ run.steps = 1
    /\ chunk.code[1] = OP_RETURN
    /\ vm.stack_ = <<>>

\* C24: in every reachable state of a VM, across any sequence of run() and reset()
\* calls on any chunks, the stack holds at most max_stack_size values.
C24_StackWithinBound ==
    stage = "vm" => Len(vm.stack_) <= config.max_stack_size

\* C24 witness: in a second run on the same VM a push found the stack full, the
\* stack holding max_stack_size values, more than one.
C24_Witness ==
    /\ stage = "vm"
    /\ run.runs = 2
    /\ ~run.clean
    /\ run.full
    /\ Len(vm.stack_) = config.max_stack_size
    /\ config.max_stack_size = MaxStackSize

\* C27: when run() has returned OK the error message is empty, and when it has
\* returned RUNTIME_ERROR the message is not empty, on a new VM and on a VM that
\* ran before.
C27_MessageMatchesResult ==
    (stage = "vm" /\ run.state = "done") =>
        /\ run.result = "OK" => vm.error_message_ = ""
        /\ run.result = "RUNTIME_ERROR" => vm.error_message_ # ""

\* What holds of the message: the same on a VM that was new or reset() when the run
\* began, in a run where no push found the stack full.
MessageMatchesResultWithoutOverflow ==
    (stage = "vm" /\ run.state = "done" /\ run.clean /\ ~run.full) =>
        /\ run.result = "OK" => vm.error_message_ = ""
        /\ run.result = "RUNTIME_ERROR" => vm.error_message_ # ""

\* A run of a chunk of ArithChunks with OP_EQUAL or OP_NOT_EQUAL has ended.
EqualityRunOver ==
    /\ stage = "run"
    /\ run.state \in {"done", "killed"}
    /\ chunk.constants = ArithPool
    /\ chunk.code # <<>>
    /\ AppliedOp(chunk) \in {OP_EQUAL, OP_NOT_EQUAL}

\* Two values are the same value: the same type and the same payload.
SameValue(a, b) ==
    \/ a.t = "NIL" /\ b.t = "NIL"
    \/ a.t = "INTEGER" /\ b.t = "INTEGER" /\ a.v = b.v
    \/ a.t = "BOOLEAN" /\ b.t = "BOOLEAN" /\ a.v = b.v

\* C30: OP_EQUAL and OP_NOT_EQUAL executed on a stack of at least two values replace
\* the top two, a below b, by Boolean(a == b), respectively Boolean(a != b), for
\* values of any types: values of different types compare unequal and raise no
\* runtime error, and the run ends with OK; with fewer than two values run
\* returns RUNTIME_ERROR with a non-empty message and the stack is left alone.
C30_EqualityOnAnyTypes ==
    EqualityRunOver =>
        LET ops == PushedOperands(chunk)
            n == Len(ops)
        IN  IF n >= 2
            THEN /\ run.state = "done"
                 /\ run.result = "OK"
                 /\ vm.error_message_ = ""
                 /\ vm.stack_ = SubSeq(ops, 1, n - 2) \o
                       <<Boolean(IF AppliedOp(chunk) = OP_EQUAL
                                 THEN SameValue(ops[n - 1], ops[n])
                                 ELSE ~SameValue(ops[n - 1], ops[n]))>>
            ELSE /\ run.state = "done"
                 /\ run.result = "RUNTIME_ERROR"
                 /\ vm.error_message_ # ""
                 /\ vm.stack_ = ops

\* C30 witness: OP_EQUAL on Nil and Integer(0) has left Boolean(false) and the run
\* ended with OK.
C30_Witness ==
    /\ EqualityRunOver
    /\ AppliedOp(chunk) = OP_EQUAL
    /\ PushedOperands(chunk) = <<Nil, Integer(0)>>
    /\ run.result = "OK"
    /\ vm.stack_ = <<Boolean(FALSE)>>

(***************************************************************************)
(* The Compiler specification: one Compiler compiles Programs built through *)
(* the AST constructors, each into an empty Chunk or into a Chunk whose     *)
(* constant pool is already filled.                                         *)
(***************************************************************************)
MaxBody == 2        \* statements in a function body
MaxCompiles == 2    \* compile() calls made on one Compiler
PoolFill == 255     \* constants in the filled Chunk

\* The texts of INTEGER_LITERAL tokens: 3, 0x1F, 2147483647 and 2147483648.
LiteralTexts == {<<"3">>, <<"0","x","1","F">>,
                 <<"2","1","4","7","4","8","3","6","4","7">>,
                 <<"2","1","4","7","4","8","3","6","4","8">>}

IntegerLiteral(text) == [type |-> "INTEGER_LITERAL", value |-> text, span |-> DefaultSpan]
ReturnStatement(expression) ==
    [type |-> "RETURN_STATEMENT", expression |-> expression, span |-> DefaultSpan]
BlockStatement(statements) ==
    [type |-> "BLOCK_STATEMENT", statements |-> statements, span |-> DefaultSpan]
FunctionDeclaration(body) ==
    [type |-> "FUNCTION_DECLARATION", function_name |-> <<"f">>,
     return_type |-> <<[type |-> "TYPE", name |-> <<"i","3","2">>, span |-> DefaultSpan]>>,
     body |-> body, span |-> DefaultSpan]
PackageDeclaration ==
    [type |-> "PACKAGE_DECLARATION", package_name |-> <<"m">>, span |-> DefaultSpan]
Program(declarations) ==
    [type |-> "PROGRAM", package_declaration |-> <<>>, declarations |-> declarations,
     span |-> DefaultSpan]

CompilerStatements ==
    {ReturnStatement(<<IntegerLiteral(t)>>) : t \in LiteralTexts}
        \cup {ReturnStatement(<<>>), BlockStatement(<<>>)}

CompilerPrograms ==
    {Program(<<FunctionDeclaration(<<BlockStatement(b)>>)>>) :
        b \in SeqsUpTo(CompilerStatements, MaxBody)}
    \cup {Program(<<>>), Program(<<PackageDeclaration>>),
          Program(<<FunctionDeclaration(<<>>)>>),
          Program(<<FunctionDeclaration(<<BlockStatement(<<>>)>>),
                    FunctionDeclaration(<<BlockStatement(<<>>)>>)>>)}

FilledChunk == [code |-> <<>>, constants |-> [i \in 1..PoolFill |-> Nil]]

CompilerInit ==
    /\ stage = "compiler"
    /\ source = <<>>
    /\ config = DefaultLexerConfig
    /\ lexer = NewLexer
    /\ returned = <<>>
    /\ peeks = <<>>
    /\ tokens = NoTokens
    /\ parsed = NoParse
    /\ compiler = NoCompiler
    /\ chunk = NoChunk
    /\ vm = NoVM
    /\ run = NoRun

\* result = compiler.compile(program, chunk) on a Chunk the caller has just built.
CompilerCompile ==
    /\ stage = "compiler"
    /\ compiler.calls < MaxCompiles
    /\ \E program \in CompilerPrograms, given \in {EmptyChunk, FilledChunk} :
          LET r == compile(program, given, compiler.error_message_)
          IN  /\ chunk' = r.chunk
              /\ compiler' = [error_message_ |-> r.error_message_,
                              calls |-> compiler.calls + 1,
                              result |-> r.result, previous |-> compiler.result,
                              program |-> <<program>>, chunk_before |-> <<given>>]
    /\ UNCHANGED <<stage, source, config, lexer, returned, peeks, tokens, parsed, vm, run>>

CompilerNext == CompilerCompile

CompilerSpec == CompilerInit /\ [][CompilerNext]_vars

(***************************************************************************)
(* Claims about the Compiler.                                              *)
(***************************************************************************)
\* The text begins with decimal digits that denote a number of the range of int:
\* after the leading zeros, fewer than ten digits, or ten digits that are not
\* above 2147483647 digit by digit.
RECURSIVE DigitsAtMost(_, _)
DigitsAtMost(a, b) ==
    IF a = <<>> THEN TRUE
    ELSE IF DigitValue(Head(a)) # DigitValue(Head(b))
    THEN DigitValue(Head(a)) < DigitValue(Head(b))
    ELSE DigitsAtMost(Tail(a), Tail(b))

RECURSIVE DigitPrefix(_)
DigitPrefix(text) ==
    IF text # <<>> /\ Head(text) \in DigitChars
    THEN <<Head(text)>> \o DigitPrefix(Tail(text))
    ELSE <<>>

RECURSIVE DropZeros(_)
DropZeros(digits) ==
    IF digits # <<>> /\ Head(digits) = "0" THEN DropZeros(Tail(digits)) ELSE digits

DenotesInt(text) ==
    /\ DigitPrefix(text) # <<>>
    /\ LET d == DropZeros(DigitPrefix(text))
       IN  \/ Len(d) < 10
           \/ Len(d) = 10 /\ DigitsAtMost(d, <<"2","1","4","7","4","8","3","6","4","7">>)

\* Lowering fails at the first statement that is not a return, or that returns a
\* literal whose text denotes no int or whose constant would get an index above
\* 255; size is the size of the constant pool before the first statement.
LoweringFails(statements, size) ==
    \E i \in 1..Len(statements) :
        \/ statements[i].type # "RETURN_STATEMENT"
        \/ /\ statements[i].expression # <<>>
           /\ \/ statements[i].expression[1].type # "INTEGER_LITERAL"
              \/ ~DenotesInt(statements[i].expression[1].value)
              \/ size + i - 1 > 255

\* C9: compile returns ERROR exactly when the Program is not one function declaration
\* with a body or lowering one of its statements fails, and after every call
\* has_errors() holds exactly when that call returned ERROR.
C9_ErrorIffInvalid ==
    (stage = "compiler" /\ compiler.calls > 0) =>
        /\ (compiler.result = "ERROR") <=>
              (\/ ~OneFunctionWithBody(compiler.program[1])
               \/ LoweringFails(BodyOf(compiler.program[1]),
                                Len(compiler.chunk_before[1].constants)))
        /\ compiler.result \in {"OK", "ERROR"}
        /\ has_errors(compiler.error_message_) <=> (compiler.result = "ERROR")

\* C9 witness: the second call on a Compiler whose first call failed returned OK, on a
\* body that holds a statement.
C9_Witness ==
    /\ stage = "compiler"
    /\ compiler.calls = 2
    /\ compiler.previous = "ERROR"
    /\ compiler.result = "OK"
    /\ chunk.code # <<>>

\* Statement i of the body the last call compiled is a return of an integer
\* literal whose text denotes an int, and the statements before it were lowered.
LiteralLowered(i) ==
    /\ stage = "compiler"
    /\ compiler.calls > 0
    /\ OneFunctionWithBody(compiler.program[1])
    /\ i \in 1..Len(BodyOf(compiler.program[1]))
    /\ IsLiteralReturn(BodyOf(compiler.program[1])[i])
    /\ DenotesInt(BodyOf(compiler.program[1])[i].expression[1].value)
    /\ ~LoweringFails(SubSeq(BodyOf(compiler.program[1]), 1, i - 1),
                      Len(compiler.chunk_before[1].constants))

\* The size of the constant pool when statement i is lowered: every statement
\* before it added one constant.
PoolBefore(i) == Len(compiler.chunk_before[1].constants) + i - 1

\* The code written before statement i: three bytes for every statement.
CodeBefore(i) == Len(compiler.chunk_before[1].code) + 3 * (i - 1)

\* The literal of statement i was lowered normally: OP_CONSTANT with the index of
\* its constant, an Integer appended to the pool, then OP_RETURN.
LoweredNormally(i) ==
    /\ Len(chunk.code) >= CodeBefore(i) + 3
    /\ chunk.code[CodeBefore(i) + 1] = OP_CONSTANT
    /\ chunk.code[CodeBefore(i) + 2] = PoolBefore(i)
    /\ chunk.code[CodeBefore(i) + 3] = OP_RETURN
    /\ Len(chunk.constants) > PoolBefore(i)
    /\ is_integer(chunk.constants[PoolBefore(i) + 1])

\* Lowering the literal of statement i failed for too many constants and emitted no
\* instruction.
RefusedForTooMany(i) ==
    /\ compiler.result = "ERROR"
    /\ compiler.error_message_ = "Too many constants"
    /\ Len(chunk.code) = CodeBefore(i)

\* C20 as stated: an integer literal lowered into a chunk whose pool already holds
\* 255 entries makes compile return ERROR with the too-many-constants message and
\* no OP_CONSTANT is emitted; with fewer than 255 entries it is lowered normally.
C20_ErrorAt255Constants ==
    \A i \in 1..MaxBody :
        LiteralLowered(i) =>
            /\ PoolBefore(i) = 255 => RefusedForTooMany(i)
            /\ PoolBefore(i) < 255 => LoweredNormally(i)

\* C20 amended: the limit is 256 entries.  With 255 entries or fewer in the pool the
\* literal is lowered normally, the 256th constant getting index 255; with 256
\* entries or more compile returns ERROR with the too-many-constants message and
\* emits no instruction, the constant having been appended to the pool all the same.
C20_ErrorAt256Constants ==
    \A i \in 1..MaxBody :
        LiteralLowered(i) =>
            /\ PoolBefore(i) >= 256 =>
                  /\ RefusedForTooMany(i)
                  /\ Len(chunk.constants) = PoolBefore(i) + 1
            /\ PoolBefore(i) <= 255 => LoweredNormally(i)

\* C20 witness: into a chunk of 255 constants a first literal was lowered with
\* index 255, and the literal after it was refused.
C20_Witness ==
    /\ LiteralLowered(1)
    /\ LiteralLowered(2)
    /\ PoolBefore(1) = 255
    /\ LoweredNormally(1)
    /\ RefusedForTooMany(2)

\* The whole of text is decimal digits that denote a number of the range of int.
WholeTextDenotesInt(text) ==
    /\ text # <<>>
    /\ \A k \in 1..Len(text) : text[k] \in DigitChars
    /\ DenotesInt(text)

\* Statement i of the body the last call compiled is a return of an integer
\* literal that compile reached with room left in the constant pool.
LiteralReached(i) ==
    /\ stage = "compiler"
    /\ compiler.calls > 0
    /\ OneFunctionWithBody(compiler.program[1])
    /\ i \in 1..Len(BodyOf(compiler.program[1]))
    /\ IsLiteralReturn(BodyOf(compiler.program[1])[i])
    /\ ~LoweringFails(SubSeq(BodyOf(compiler.program[1]), 1, i - 1),
                      Len(compiler.chunk_before[1].constants))
    /\ PoolBefore(i) <= 255

\* C21: the constant added for an integer literal is the int denoted by the whole of
\* its text; a text that does not parse in full as an int (out of range, or a form
\* such as 0x1F) makes compile return ERROR and stores no constant for it.
C21_ConstantIsWholeLiteral ==
    \A i \in 1..MaxBody :
        LiteralReached(i) =>
            IF WholeTextDenotesInt(BodyOf(compiler.program[1])[i].expression[1].value)
            THEN /\ Len(chunk.constants) > PoolBefore(i)
                 /\ chunk.constants[PoolBefore(i) + 1] =
                       Integer(RadixValue(BodyOf(compiler.program[1])[i].expression[1].value,
                                          1, 10, 0))
            ELSE /\ compiler.result = "ERROR"
                 /\ Len(chunk.constants) = PoolBefore(i)

(***************************************************************************)
(* The long-body specification: one Compiler compiles, into an empty       *)
(* Chunk, functions whose bodies hold about 256 return statements.         *)
(***************************************************************************)
LongPrefix == 253   \* bare returns at the head of every long body
MaxLongTail == 5    \* return statements of either kind after them

LongBodies ==
    {[i \in 1..LongPrefix |-> ReturnStatement(<<>>)] \o tail :
        tail \in SeqsUpTo({ReturnStatement(<<>>), ReturnStatement(<<IntegerLiteral(<<"3">>)>>)},
                          MaxLongTail)}

LongPrograms == {Program(<<FunctionDeclaration(<<BlockStatement(b)>>)>>) : b \in LongBodies}

\* Chunk chunk; result = compiler.compile(program, chunk);
LongCompile ==
    /\ stage = "compiler"
    /\ compiler.calls < MaxCompiles
    /\ \E program \in LongPrograms :
          LET r == compile(program, EmptyChunk, compiler.error_message_)
          IN  /\ chunk' = r.chunk
              /\ compiler' = [error_message_ |-> r.error_message_,
                              calls |-> compiler.calls + 1,
                              result |-> r.result, previous |-> compiler.result,
                              program |-> <<program>>, chunk_before |-> <<EmptyChunk>>]
    /\ UNCHANGED <<stage, source, config, lexer, returned, peeks, tokens, parsed, vm, run>>

LongNext == LongCompile

LongSpec == CompilerInit /\ [][LongNext]_vars

\* C28: in a chunk filled by a compile that returned OK starting from an empty chunk,
\* the constant pool holds at most 256 entries, and the operand byte of the
\* OP_CONSTANT of every statement is the pool index of the constant lowered for
\* it, for integer-literal returns and for the Nil of bare returns alike.
C28_OperandIsPoolIndex ==
    (/\ stage = "compiler"
     /\ compiler.calls > 0
     /\ compiler.result = "OK"
     /\ compiler.chunk_before = <<EmptyChunk>>) =>
        /\ Len(chunk.constants) <= 256
        /\ \A i \in 1..Len(BodyOf(compiler.program[1])) :
              /\ chunk.code[3 * (i - 1) + 1] = OP_CONSTANT
              /\ chunk.code[3 * (i - 1) + 2] = i - 1
              /\ chunk.constants[i] =
                    IF IsBareReturn(BodyOf(compiler.program[1])[i]) THEN Nil
                    ELSE Integer(3)

====
